---- MODULE Spec2Model ----
(***************************************************************************)
(* Alarm scheduling engine of sunrise-expo (src/src/services/alarm.ts).    *)
(*                                                                         *)
(* The persistent store (AsyncStorage) holds two keys: the tracked id set  *)
(* (STORAGE_KEY_IDS, a JSON array of strings) and the legacy single id     *)
(* (STORAGE_KEY_LEGACY, a bare string).  The platform (expo-notifications) *)
(* holds the scheduled (pending) and the delivered notifications.  Every   *)
(* exported async function is a task; each `await` of a store or platform  *)
(* call is one step, so that tasks interleave exactly at their awaits.     *)
(***************************************************************************)
EXTENDS Integers, Sequences, FiniteSets, TLC

\* ---------------------------------------------------------------- bounds
MaxOps == 2
\* number of invocations started in one behaviour

MaxEffects == 2
\* number of runs of the weather effect that fetch in one behaviour

Effects == 1..MaxEffects

\* ------------------------------------------------------------- constants
NULL == -1
\* AsyncStorage.getItem's null / an absent value

EmptyId == 0
\* the empty string "" as a notification id (falsy in filter(Boolean))

LegacyId == 1
\* id left under STORAGE_KEY_LEGACY by an earlier version of the app

\* slots for the call chains in flight: a call and one that overlaps it
Procs == {1, 2}
\* the instant of the alarm an earlier run of the app left behind
PriorWhen == 0
\* the minutes passed to scheduleSnooze (the listener passes 10)
SnoozeMinutes == {10}

\* ------------------------------------------------------------- variables
VARIABLES
  idsKey,      \* raw value under STORAGE_KEY_IDS
  legacyKey,   \* raw value under STORAGE_KEY_LEGACY (NULL when absent)
  scheduled,   \* platform: pending notifications, records [id, trigger]
  delivered,   \* platform: ids of notifications shown in the tray
  nextId,      \* platform: next identifier scheduleNotificationAsync returns
  task,        \* per invocation: position and locals
  hist,        \* per invocation: what it saw at its start and what it requested
  started,     \* number of invocations started so far
  memoryCache, \* weather.ts: the in-memory cache slot (NoEntry when null)
  cacheItem,   \* raw value under CACHE_KEY in the persistent store
  now,         \* Date.now(), in milliseconds
  wtask,       \* per cache call: position, arguments, locals and result
  lastPut,     \* the arguments of the latest updateWeatherCache call
  wstarted,    \* number of cache calls started so far
  sun,         \* App.tsx: the sun times in state, the instant asked, the altitude
  alarmEnabled, \* App.tsx: the toggle (useState(false))
  location,    \* App.tsx: the location in state
  loading,     \* App.tsx: hydrate has not finished (useState(true))
  settings,    \* the record under "sunriseAlarm.settings" in the persistent store
  permission,  \* platform: status of the notification permission
  app,         \* per handler invocation of App: position, closure values and locals
  screen,      \* App.tsx: the screen shown
  effect,      \* per run of the weather effect: its `active` flag and its progress
  current,     \* the run of the weather effect whose cleanup React holds (0: none)
  shown        \* App.tsx: the weather state the screen renders

\* the state of the alarm engine: store keys, platform, invocations
alarmVars == <<idsKey, legacyKey, scheduled, delivered, nextId, task, hist, started>>

\* the state of the weather cache: both tiers, the clock, the calls in flight
cacheVars == <<memoryCache, cacheItem, now, wtask, lastPut, wstarted>>

\* the state getSunAltitude reads and what it returned
sunVars == <<sun>>

\* the state of the App component that the alarm handlers read and write
appVars == <<alarmEnabled, location, loading, settings, permission, app>>

\* the state of the weather screen
screenVars == <<screen, effect, current, shown>>

vars == <<alarmVars, cacheVars, sunVars, appVars, screenVars>>

\* ------------------------------------------------------- raw store values
AbsentRaw == [kind |-> "null", ids |-> <<>>]

\* JSON.stringify of an array of strings
JSONstringify(ids) == [kind |-> "array", ids |-> ids]

\* the raw values a read of STORAGE_KEY_IDS can return
RawKinds == {"null", "array", "not_json", "not_array", "mixed_array"}

\* ---------------------------------------------------------- pure helpers
RECURSIVE SeqToSet(_)
SeqToSet(s) == IF s = <<>> THEN {} ELSE {Head(s)} \cup SeqToSet(Tail(s))

RECURSIVE UniqFrom(_, _)
UniqFrom(s, seen) ==
  IF s = <<>> THEN <<>>
  ELSE IF Head(s) \in seen THEN UniqFrom(Tail(s), seen)
       ELSE <<Head(s)>> \o UniqFrom(Tail(s), seen \cup {Head(s)})

\* Array.from(new Set(ids)): first occurrences, in order
ArrayFromSet(ids) == UniqFrom(ids, {})

\* .filter(Boolean) on strings: drops "" (and null)
FilterBoolean(ids) == SelectSeq(ids, LAMBDA x : x # EmptyId /\ x # NULL)

\* a safeParseIdArray that keeps the strings of an array with other elements
safeParseIdArrayKeepsStrings(raw) ==
  IF raw.kind \in {"array", "mixed_array"} THEN raw.ids ELSE <<>>

\* if (!raw) return []; JSON.parse in try/catch; the array is returned only if
\* every element is a string
safeParseIdArray(raw) ==
  IF raw.kind = "null" THEN <<>>
  ELSE IF raw.kind = "array" THEN raw.ids
  ELSE <<>>

\* a setStoredIds without `new Set`
setStoredIdsKeepsDuplicates(ids) == JSONstringify(FilterBoolean(ids))

\* JSON.stringify(Array.from(new Set(ids)).filter(Boolean))
setStoredIds(ids) == JSONstringify(FilterBoolean(ArrayFromSet(ids)))

\* addStoredId that forgets what was stored
addStoredIdOverwrites(ids, id) == <<id>>

addStoredId(ids, id) == Append(ids, id)

\* clearStoredIds that does not read the legacy id into the result
clearStoredIdsForgetsLegacy(ids, legacy) == FilterBoolean(ArrayFromSet(ids))

\* clearStoredIds without the `legacy ?` test and without filter(Boolean)
clearStoredIdsNoGuard(ids, legacy) == ArrayFromSet(Append(ids, legacy))

\* legacy ? [...ids, legacy] : ids, then Array.from(new Set(all)).filter(Boolean)
clearStoredIds(ids, legacy) ==
  LET all == IF legacy # NULL /\ legacy # EmptyId THEN Append(ids, legacy) ELSE ids
  IN  FilterBoolean(ArrayFromSet(all))

\* a clearStoredIds that leaves the tracked-set key in place
removeItemSkipped == idsKey

\* AsyncStorage.removeItem(STORAGE_KEY_IDS)
removeItem == AbsentRaw

\* a clearStoredIds that leaves the legacy key in place
removeLegacyItemSkipped == legacyKey

\* AsyncStorage.removeItem(STORAGE_KEY_LEGACY)
removeLegacyItem == NULL

Max(a, b) == IF a >= b THEN a ELSE b

DateTrigger(when) == [type |-> "date", at |-> when]
\* seconds = Math.max(1, Math.round(minutes * 60))
IntervalTrigger(minutes) == [type |-> "interval", at |-> Max(1, minutes * 60)]

\* ------------------------------------------------------------------ state
\* no notification response: the invocation was not started by the listener
NoResponse == [id |-> NULL, kind |-> FALSE, category |-> FALSE, action |-> "none"]

IdleTask == [pc |-> "idle", op |-> "none", arg |-> 0, ids |-> <<>>, legacy |-> NULL,
             toCancel |-> {}, toDismiss |-> {}, newId |-> NULL, outcome |-> "none",
             response |-> NoResponse]

NoHist == [alone |-> TRUE, preIds |-> AbsentRaw, preLegacy |-> NULL,
           preAllTracked |-> TRUE,
           cancelReq |-> {}, dismissReq |-> {},
           preScheduled |-> {}, actedOn |-> NULL, called |-> "none", calledWith |-> NULL,
           trackedAtCall |-> {}]

\* weather.ts: a null bundle, a null cache slot, an absent persistent record
NoBundle == [id |-> NULL, fetchedAtMs |-> NULL]

NoKey == <<>>

NoEntry == [key |-> NoKey, fetchedAtMs |-> NULL, bundle |-> NoBundle, airQuality |-> NULL]

AbsentItem == [kind |-> "null", entry |-> NoEntry]

NoResult == [bundle |-> NoBundle, airQuality |-> NULL, isFresh |-> FALSE]

NoLoc == <<>>

\* no updateWeatherCache call was made yet
NoPut == [loc |-> NoLoc, entry |-> NoEntry, undisturbed |-> FALSE]

\* a cache call that has not started: arguments (loc, ttlArg), locals (key,
\* entry, persisted), the entry served (hit), the value returned (result), the
\* Date.now() it read (at), whether it read the persistent store and whether a
\* store call of its rejected; and how it started: with no other call in
\* flight (alone), right after a put that ran undisturbed (follows), after a
\* latest put under its own key (promised: the bundle of that put)
IdleWTask == [pc |-> "idle", op |-> "none", loc |-> NoLoc, key |-> NoKey, ttlArg |-> NULL,
              persisted |-> NoEntry, entry |-> NoEntry, hit |-> NoEntry,
              result |-> NoResult, at |-> NULL,
              read |-> FALSE, failed |-> FALSE, outcome |-> "none", alone |-> TRUE,
              follows |-> FALSE, promised |-> NoBundle]

WProcs == {1, 2}
\* slots for the cache calls in flight: a call and one that overlaps it

\* the module has just been loaded and no cache call was made: `let memoryCache = null`
CacheAtLoad ==
  /\ memoryCache = NoEntry
  /\ cacheItem = AbsentItem
  /\ now = 0
  /\ wtask = [p \in WProcs |-> IdleWTask]
  /\ lastPut = NoPut
  /\ wstarted = 0

\* a Date | null that is null
NoDate == NULL

\* getSunAltitude's null; a number is held as the nearest thousandth (milli)
\* and the sign of the double itself (sign), which tells a tiny value from 0
NullAltitude == [null |-> TRUE, milli |-> 0, sign |-> 0]

\* App.tsx: no sun times in state (useState<Date | null>(null)), nothing asked
NoSun == [todaySunrise |-> NoDate, todaySunset |-> NoDate, sunriseTime |-> NoDate,
          timeMs |-> 0, asked |-> FALSE, altitude |-> NullAltitude]

SunUnset == sun = NoSun

\* the place of DEFAULT_LOCATION (San Francisco) and the places a location
\* lookup or the user's choice can give
DEFAULT_LOCATION == 0

Places == {1, 2}

\* loadSettings' null: no record under the settings key
NoSettings == [saved |-> FALSE, alarmEnabled |-> FALSE, location |-> DEFAULT_LOCATION]

\* JSON.stringify({ alarmEnabled, location }) under the settings key
SavedSettings(enabled, loc) == [saved |-> TRUE, alarmEnabled |-> enabled, location |-> loc]

\* a handler of App that is not running: which handler, its position, the
\* values it took from its closure or computed (nextEnabled, sunrise, loc),
\* the id scheduleSunriseAlarm returned to it, how it ended; and what the
\* toggle, the settings record and the tracked ids were when it started,
\* whether it ran with no other handler in flight, whether the platform
\* cancels it asked for took effect, and its rank among the handlers started
IdleHandler == [handler |-> "none", pc |-> "idle", nextEnabled |-> FALSE, sunrise |-> NoDate,
                loc |-> DEFAULT_LOCATION, newId |-> NULL, outcome |-> "none",
                failedAt |-> "none", preEnabled |-> FALSE, preSettings |-> NoSettings,
                preTracked |-> {}, alone |-> TRUE, cancelsOk |-> TRUE, seq |-> 0]

\* the App component has just been mounted: its state holds the useState
\* defaults, the stores hold nothing
AppAtMount ==
  /\ alarmEnabled = FALSE
  /\ location = DEFAULT_LOCATION
  /\ loading = TRUE
  /\ settings = NoSettings
  /\ permission = "undetermined"
  /\ app = [p \in Procs |-> IdleHandler]

\* no weather value: useState(null), useState([])
NoValue == [from |-> 0, part |-> "none"]

\* the weather state before the weather screen was opened
NothingShown == [temperature |-> NoValue, weatherCode |-> NoValue, weatherError |-> NoValue,
                 weeklyForecast |-> NoValue, weatherDetails |-> NoValue,
                 weatherLoading |-> FALSE]

\* a run of the weather effect that has not happened
NoEffect == [state |-> "unused", active |-> FALSE, place |-> DEFAULT_LOCATION,
             applied |-> FALSE]

\* the App component has just been mounted: main screen, the weather effect
\* has not fetched
ScreenAtMount ==
  /\ screen = "main"
  /\ effect = [e \in Effects |-> NoEffect]
  /\ current = 0
  /\ shown = NothingShown

\* the ids a cancelSunriseAlarm started now would read from the store
Reachable == SeqToSet(clearStoredIds(safeParseIdArray(idsKey), legacyKey))

\* every pending notification can be reached by a later cancel
AllPendingTracked == \A n \in scheduled : n.id \in Reachable

InFlight(q) == task[q].pc \notin {"idle", "done"}

ScheduledIds == {n.id : n \in scheduled}

\* every platform cancel the call of slot p asked for took effect
CancelsTookEffect(p) == hist[p].cancelReq \cap ScheduledIds = {}

\* what earlier runs of the app can have left behind: [ids, legacy, scheduled, nextId]
\*   nothing; one alarm; an alarm that rang and was snoozed; an alarm of the
\*   version that wrote the legacy key; that alarm, rung and snoozed after the upgrade
PriorStates ==
  { [ids |-> AbsentRaw, legacy |-> NULL, scheduled |-> {}, nextId |-> 1],
    [ids |-> JSONstringify(<<1>>), legacy |-> NULL,
     scheduled |-> {[id |-> 1, trigger |-> DateTrigger(PriorWhen)]}, nextId |-> 2],
    [ids |-> JSONstringify(<<1, 2>>), legacy |-> NULL,
     scheduled |-> {[id |-> 2, trigger |-> IntervalTrigger(10)]}, nextId |-> 3],
    [ids |-> AbsentRaw, legacy |-> LegacyId,
     scheduled |-> {[id |-> LegacyId, trigger |-> DateTrigger(PriorWhen)]}, nextId |-> LegacyId + 1],
    [ids |-> JSONstringify(<<LegacyId + 1>>), legacy |-> LegacyId,
     scheduled |-> {[id |-> LegacyId + 1, trigger |-> IntervalTrigger(10)]},
     nextId |-> LegacyId + 2] }

Init ==
  /\ \E s \in PriorStates :
       /\ idsKey = s.ids
       /\ legacyKey = s.legacy
       /\ scheduled = s.scheduled
       /\ nextId = s.nextId
  /\ delivered = {}
  /\ task = [p \in Procs |-> IdleTask]
  /\ hist = [p \in Procs |-> NoHist]
  /\ started = 0
  /\ CacheAtLoad
  /\ SunUnset
  /\ AppAtMount
  /\ ScreenAtMount

\* the instant passed to the next scheduleSunriseAlarm: the k-th call of a run
\* is given the instant T_k (P1's T1, T2), later than the ones before it
NextWhen == started + 1

Others(p) == Procs \ {p}

\* locals and history of a fresh invocation; a running invocation that sees
\* another one start is no longer alone
Begin(p, o, a, first) ==
  /\ task[p].pc = "idle"
  /\ \A q \in Procs : task[q].pc = "idle" => p <= q
  /\ \A q \in Procs : task[q].pc # "done"
  /\ started < MaxOps
  /\ started' = started + 1
  /\ task' = [task EXCEPT ![p] = [IdleTask EXCEPT !.pc = first, !.op = o, !.arg = a]]
  /\ hist' = [q \in Procs |->
                IF q = p
                THEN [NoHist EXCEPT !.alone = \A r \in Others(p) : ~InFlight(r),
                                    !.preIds = idsKey, !.preLegacy = legacyKey,
                                    !.preAllTracked = AllPendingTracked]
                ELSE IF InFlight(q) THEN [hist[q] EXCEPT !.alone = FALSE] ELSE hist[q]]
  /\ UNCHANGED <<idsKey, legacyKey, scheduled, delivered, nextId, cacheVars, sunVars, appVars, screenVars>>

\* scheduleSunriseAlarm without `await cancelSunriseAlarm()`
StartScheduleNoCancel(p, when) == Begin(p, "schedule", when, "init")

\* a scheduleSunriseAlarm that skips the cancel step and calls the platform first
StartScheduleCreatesFirst(p, when) == Begin(p, "schedule", when, "create")

\* scheduleSunriseAlarm(when): runs up to its first await, inside cancelSunriseAlarm
StartSchedule(p, when) == Begin(p, "schedule", when, "clr_getIds")

\* scheduleSnooze that cancels first, as scheduleSunriseAlarm does
StartSnoozeCancelsFirst(p, minutes) == Begin(p, "snooze", minutes, "clr_getIds")

\* scheduleSnooze(minutes): runs up to `await initAlarmNotifications()`
StartSnooze(p, minutes) == Begin(p, "snooze", minutes, "init")

\* cancelSunriseAlarm(): runs up to its first await, inside clearStoredIds
StartCancel(p) == Begin(p, "cancel", 0, "clr_getIds")

Platform == <<scheduled, delivered, nextId>>

\* clearStoredIds: const ids = await getStoredIds()
ClearGetIds(p) ==
  /\ task[p].pc = "clr_getIds"
  /\ task' = [task EXCEPT ![p].ids = safeParseIdArray(idsKey), ![p].pc = "clr_getLegacy"]
  /\ UNCHANGED <<idsKey, legacyKey, Platform, hist, started, cacheVars, sunVars, appVars, screenVars>>

\* clearStoredIds: const legacy = await AsyncStorage.getItem(STORAGE_KEY_LEGACY)
ClearGetLegacy(p) ==
  /\ task[p].pc = "clr_getLegacy"
  /\ task' = [task EXCEPT ![p].legacy = legacyKey, ![p].pc = "clr_rmIds"]
  /\ UNCHANGED <<idsKey, legacyKey, Platform, hist, started, cacheVars, sunVars, appVars, screenVars>>

\* clearStoredIds: await AsyncStorage.removeItem(STORAGE_KEY_IDS)
ClearRemoveIds(p) ==
  /\ task[p].pc = "clr_rmIds"
  /\ idsKey' = removeItem
  /\ task' = [task EXCEPT ![p].pc = "clr_rmLegacy"]
  /\ UNCHANGED <<legacyKey, Platform, hist, started, cacheVars, sunVars, appVars, screenVars>>

\* where an invocation goes once cancelSunriseAlarm has returned
AfterCancel(t) ==
  IF t.op = "cancel" THEN [t EXCEPT !.pc = "done", !.outcome = "ok"]
  ELSE IF t.op = "listener" THEN [t EXCEPT !.pc = "cb_stop"]
  ELSE [t EXCEPT !.pc = "init"]

\* clearStoredIds: await AsyncStorage.removeItem(STORAGE_KEY_LEGACY), return the
\* ids; cancelSunriseAlarm: if (!ids.length) return; else start one chain per id
ClearRemoveLegacy(p) ==
  /\ task[p].pc = "clr_rmLegacy"
  /\ legacyKey' = removeLegacyItem
  /\ LET all == clearStoredIds(task[p].ids, task[p].legacy)
     IN  task' = [task EXCEPT ![p] =
                    IF Len(all) = 0 THEN AfterCancel(@)
                    ELSE [@ EXCEPT !.pc = "cancel_each", !.toCancel = SeqToSet(all)]]
  /\ UNCHANGED <<idsKey, Platform, hist, started, cacheVars, sunVars, appVars, screenVars>>

\* the per-id chain without .catch: a rejection ends cancelSunriseAlarm
afterCancelScheduledNoCatch(t, id, ok) ==
  IF ok THEN [t EXCEPT !.toCancel = @ \ {id}, !.toDismiss = @ \cup {id}]
  ELSE [t EXCEPT !.pc = "done", !.outcome = "threw", !.toCancel = {}, !.toDismiss = {}]

\* what the per-id chain does after cancelScheduledNotificationAsync(id) settled:
\* .catch(() => undefined) absorbs a rejection, the dismiss of the same id is next
afterCancelScheduled(t, id, ok) ==
  [t EXCEPT !.toCancel = @ \ {id}, !.toDismiss = @ \cup {id}]

\* await Notifications.cancelScheduledNotificationAsync(id).catch(() => undefined)
CancelScheduled(p, id, ok) ==
  /\ task[p].pc = "cancel_each"
  /\ id \in task[p].toCancel
  /\ scheduled' = IF ok THEN {n \in scheduled : n.id # id} ELSE scheduled
  /\ task' = [task EXCEPT ![p] = afterCancelScheduled(@, id, ok)]
  /\ hist' = [hist EXCEPT ![p].cancelReq = @ \cup {id}]
  /\ UNCHANGED <<idsKey, legacyKey, delivered, nextId, started, cacheVars, sunVars, appVars, screenVars>>

\* await Notifications.dismissNotificationAsync(id).catch(() => undefined);
\* Promise.all resolves when the last chain has finished
DismissDelivered(p, id, ok) ==
  /\ task[p].pc = "cancel_each"
  /\ id \in task[p].toDismiss
  /\ delivered' = IF ok THEN delivered \ {id} ELSE delivered
  /\ task' = [task EXCEPT ![p] =
                IF @.toCancel = {} /\ @.toDismiss = {id}
                THEN AfterCancel([@ EXCEPT !.toDismiss = {}])
                ELSE [@ EXCEPT !.toDismiss = @ \ {id}]]
  /\ hist' = [hist EXCEPT ![p].dismissReq = @ \cup {id}]
  /\ UNCHANGED <<idsKey, legacyKey, scheduled, nextId, started, cacheVars, sunVars, appVars, screenVars>>

Threw(t) == [t EXCEPT !.pc = "done", !.outcome = "threw"]

\* await initAlarmNotifications(): registers the channel and the category (both
\* idempotent, kept by the platform), or rejects
InitAlarmNotifications(p, ok) ==
  /\ task[p].pc = "init"
  /\ task' = [task EXCEPT ![p] = IF ok THEN [@ EXCEPT !.pc = "create"] ELSE Threw(@)]
  /\ UNCHANGED <<idsKey, legacyKey, scheduled, delivered, nextId, hist, started, cacheVars, sunVars, appVars, screenVars>>

TriggerOf(t) == IF t.op = "schedule" THEN DateTrigger(t.arg) ELSE IntervalTrigger(t.arg)

\* const id = await Notifications.scheduleNotificationAsync({content, trigger})
ScheduleNotification(p, ok) ==
  /\ task[p].pc = "create"
  /\ IF ok
     THEN /\ scheduled' = scheduled \cup {[id |-> nextId, trigger |-> TriggerOf(task[p])]}
          /\ nextId' = nextId + 1
          /\ task' = [task EXCEPT ![p].newId = nextId, ![p].pc = "add_get"]
     ELSE /\ task' = [task EXCEPT ![p] = Threw(@)]
          /\ UNCHANGED <<scheduled, nextId>>
  /\ UNCHANGED <<idsKey, legacyKey, delivered, hist, started, cacheVars, sunVars, appVars, screenVars>>

\* addStoredId: const ids = await getStoredIds(); ids.push(id)
AddGetIds(p) ==
  /\ task[p].pc = "add_get"
  /\ task' = [task EXCEPT ![p].ids = addStoredId(safeParseIdArray(idsKey), task[p].newId),
                          ![p].pc = "add_set"]
  /\ UNCHANGED <<idsKey, legacyKey, Platform, hist, started, cacheVars, sunVars, appVars, screenVars>>

\* where an invocation goes once scheduleSnooze / scheduleSunriseAlarm has returned
AfterAdd(t) ==
  IF t.op = "listener" THEN [t EXCEPT !.pc = "cb_snooze"]
  ELSE [t EXCEPT !.pc = "done", !.outcome = "ok"]

\* addStoredId: await setStoredIds(ids); then return id
AddSetIds(p) ==
  /\ task[p].pc = "add_set"
  /\ idsKey' = setStoredIds(task[p].ids)
  /\ task' = [task EXCEPT ![p] = AfterAdd(@)]
  /\ UNCHANGED <<legacyKey, Platform, hist, started, cacheVars, sunVars, appVars, screenVars>>

\* the caller has seen the result; the slot is free for the next invocation
Return(p) ==
  /\ task[p].pc = "done"
  /\ task' = [task EXCEPT ![p] = IdleTask]
  /\ hist' = [hist EXCEPT ![p] = NoHist]
  /\ UNCHANGED <<idsKey, legacyKey, Platform, started, cacheVars, sunVars, appVars, screenVars>>

\* the platform delivers a pending notification when its trigger is reached
\* (tomorrow's sunrise, or minutes later: never inside a running call chain)
Deliver(n) ==
  /\ n \in scheduled
  /\ \A q \in Procs : task[q].pc = "idle"
  /\ scheduled' = scheduled \ {n}
  /\ delivered' = delivered \cup {n.id}
  /\ UNCHANGED <<idsKey, legacyKey, nextId, task, hist, started, cacheVars, sunVars, appVars, screenVars>>

StoreOps == {"clr_getIds", "clr_getLegacy", "clr_rmIds", "clr_rmLegacy", "add_get", "add_set"}

\* an AsyncStorage call rejects: nothing in the functions catches it
StoreReject(p) ==
  /\ task[p].pc \in StoreOps
  /\ task' = [task EXCEPT ![p] = Threw(@)]
  /\ UNCHANGED <<idsKey, legacyKey, Platform, hist, started, cacheVars, sunVars, appVars, screenVars>>

Next ==
  \/ \E p \in Procs : StartSchedule(p, NextWhen)
  \/ \E p \in Procs, minutes \in SnoozeMinutes : StartSnooze(p, minutes)
  \/ \E p \in Procs : StartCancel(p)
  \/ \E p \in Procs : ClearGetIds(p)
  \/ \E p \in Procs : ClearGetLegacy(p)
  \/ \E p \in Procs : ClearRemoveIds(p)
  \/ \E p \in Procs : ClearRemoveLegacy(p)
  \/ \E p \in Procs, ok \in BOOLEAN : \E id \in task[p].toCancel : CancelScheduled(p, id, ok)
  \/ \E p \in Procs, ok \in BOOLEAN : \E id \in task[p].toDismiss : DismissDelivered(p, id, ok)
  \/ \E p \in Procs, ok \in BOOLEAN : InitAlarmNotifications(p, ok)
  \/ \E p \in Procs, ok \in BOOLEAN : ScheduleNotification(p, ok)
  \/ \E p \in Procs : AddGetIds(p)
  \/ \E p \in Procs : AddSetIds(p)
  \/ \E p \in Procs : Return(p)
  \/ \E n \in scheduled : Deliver(n)

Spec == Init /\ [][Next]_vars

\* the same program on a store whose calls can reject
NextStoreFail == Next \/ \E p \in Procs : StoreReject(p)

SpecStoreFail == Init /\ [][NextStoreFail]_vars

\* ------------------------------------------------- the action listener
ALARM_ACTION_STOP == "STOP_ALARM"

ALARM_ACTION_SNOOZE_10 == "SNOOZE_10"

\* any other actionIdentifier, such as the tap on the notification body
OtherAction == "DEFAULT"

Actions == {ALARM_ACTION_STOP, ALARM_ACTION_SNOOZE_10, OtherAction}

\* identifier of a notification in the tray that the alarm code did not create
ForeignId == 9

\* content.data.kind = ALARM_DATA_KIND or not, content.categoryIdentifier =
\* ALARM_CATEGORY_ID or not: buildAlarmContent sets both; a notification of the
\* earlier version of the app can carry both, one or none; a foreign one none
Markers(i) ==
  IF i = ForeignId THEN {<<FALSE, FALSE>>}
  ELSE IF i = LegacyId THEN BOOLEAN \X BOOLEAN
  ELSE {<<TRUE, TRUE>>}

\* the responses the platform can hand to the listener: the user acted on a
\* notification in the tray
Responses ==
  UNION {{[id |-> i, kind |-> m[1], category |-> m[2], action |-> a] :
            m \in Markers(i), a \in Actions} : i \in delivered \cup {ForeignId}}

\* a listener that wants both markers
IsAlarmResponseBoth(r) == r.kind /\ r.category

\* the negation of `data?.kind !== ALARM_DATA_KIND &&
\* content.categoryIdentifier !== ALARM_CATEGORY_ID`, on which the listener returns
IsAlarmResponse(r) == r.kind \/ r.category

\* the listener is invoked with a response and runs up to its first await: it
\* returns at once, or has called dismissNotificationAsync(identifier); a run
\* that returns at once keeps what it found in the store and on the platform
Respond(p, r) ==
  /\ task[p].pc = "idle"
  /\ \A q \in Procs : task[q].pc = "idle" => p <= q
  /\ \A q \in Procs : task[q].pc # "done"
  /\ started < MaxOps
  /\ started' = started + 1
  /\ task' = [task EXCEPT ![p] =
                IF IsAlarmResponse(r)
                THEN [IdleTask EXCEPT !.pc = "lst_dismiss", !.op = "listener", !.response = r]
                ELSE [IdleTask EXCEPT !.pc = "done", !.op = "listener", !.response = r,
                                      !.outcome = "ok"]]
  /\ hist' = [q \in Procs |->
                IF q = p
                THEN IF IsAlarmResponse(r)
                     THEN [NoHist EXCEPT !.alone = \A x \in Others(p) : ~InFlight(x)]
                     ELSE [NoHist EXCEPT !.alone = \A x \in Others(p) : ~InFlight(x),
                                         !.preIds = idsKey, !.preLegacy = legacyKey,
                                         !.preScheduled = scheduled]
                ELSE IF InFlight(q) THEN [hist[q] EXCEPT !.alone = FALSE] ELSE hist[q]]
  /\ UNCHANGED <<idsKey, legacyKey, scheduled, delivered, nextId, cacheVars, sunVars, appVars, screenVars>>

\* a listener that stops the alarm on every action but the snooze
AfterListenerDismissDefaultStops(t) ==
  IF t.response.action = ALARM_ACTION_SNOOZE_10 THEN [t EXCEPT !.pc = "init", !.arg = 10]
  ELSE [t EXCEPT !.pc = "clr_getIds"]

\* where the listener goes after the dismissal settled: by actionIdentifier
AfterListenerDismiss(t) ==
  IF t.response.action = ALARM_ACTION_STOP THEN [t EXCEPT !.pc = "clr_getIds"]
  ELSE IF t.response.action = ALARM_ACTION_SNOOZE_10 THEN [t EXCEPT !.pc = "init", !.arg = 10]
  ELSE [t EXCEPT !.pc = "done", !.outcome = "ok"]

\* await Notifications.dismissNotificationAsync(identifier).catch(() => undefined)
ListenerDismiss(p, ok) ==
  /\ task[p].pc = "lst_dismiss"
  /\ delivered' = IF ok THEN delivered \ {task[p].response.id} ELSE delivered
  /\ task' = [task EXCEPT ![p] = AfterListenerDismiss(@)]
  /\ hist' = [hist EXCEPT ![p].actedOn = task[p].response.id]
  /\ UNCHANGED <<idsKey, legacyKey, scheduled, nextId, started, cacheVars, sunVars, appVars, screenVars>>

\* what a handler passed to registerAlarmActionListener can do when called: it
\* is not given (handlers.onStop?.()), returns (a value or a promise that
\* resolves), returns a promise that rejects, or throws while it runs
Handlers == {"absent", "returns", "rejects", "throws"}

\* await Promise.resolve(handler()).catch(() => undefined): the handler is
\* called first, outside the chain; the catch sees only a rejected promise
AwaitCallback(t, how) ==
  IF how = "throws" THEN Threw(t) ELSE [t EXCEPT !.pc = "done", !.outcome = "ok"]

Called(h, name, arg, how) ==
  IF how = "absent" THEN h
  ELSE [h EXCEPT !.called = name, !.calledWith = arg, !.trackedAtCall = Reachable]

\* cancelSunriseAlarm() has returned: await Promise.resolve(handlers.onStop?.())...
CallOnStop(p, how) ==
  /\ task[p].pc = "cb_stop"
  /\ task' = [task EXCEPT ![p] = AwaitCallback(@, how)]
  /\ hist' = [hist EXCEPT ![p] = Called(@, "onStop", NULL, how)]
  /\ UNCHANGED <<idsKey, legacyKey, Platform, started, cacheVars, sunVars, appVars, screenVars>>

\* scheduleSnooze(10) has returned: await Promise.resolve(handlers.onSnooze?.(10))...
CallOnSnooze(p, how) ==
  /\ task[p].pc = "cb_snooze"
  /\ task' = [task EXCEPT ![p] = AwaitCallback(@, how)]
  /\ hist' = [hist EXCEPT ![p] = Called(@, "onSnooze", 10, how)]
  /\ UNCHANGED <<idsKey, legacyKey, Platform, started, cacheVars, sunVars, appVars, screenVars>>

\* the listener alone: responses arrive, the engine functions run only on its behalf
NextListener ==
  \/ \E p \in Procs : \E r \in Responses : Respond(p, r)
  \/ \E p \in Procs, ok \in BOOLEAN : ListenerDismiss(p, ok)
  \/ \E p \in Procs : ClearGetIds(p)
  \/ \E p \in Procs : ClearGetLegacy(p)
  \/ \E p \in Procs : ClearRemoveIds(p)
  \/ \E p \in Procs : ClearRemoveLegacy(p)
  \/ \E p \in Procs, ok \in BOOLEAN : \E id \in task[p].toCancel : CancelScheduled(p, id, ok)
  \/ \E p \in Procs, ok \in BOOLEAN : \E id \in task[p].toDismiss : DismissDelivered(p, id, ok)
  \/ \E p \in Procs, how \in Handlers : CallOnStop(p, how)
  \/ \E p \in Procs, ok \in BOOLEAN : InitAlarmNotifications(p, ok)
  \/ \E p \in Procs, ok \in BOOLEAN : ScheduleNotification(p, ok)
  \/ \E p \in Procs : AddGetIds(p)
  \/ \E p \in Procs : AddSetIds(p)
  \/ \E p \in Procs, how \in Handlers : CallOnSnooze(p, how)
  \/ \E p \in Procs : Return(p)
  \/ \E n \in scheduled : Deliver(n)

SpecListener == Init /\ [][NextListener]_vars

\* ------------------------------- damaged records and an unusual platform
\* a record under STORAGE_KEY_IDS that JSON.parse or the shape test rejects:
\* text that is no JSON, JSON that is no array, an array with an element that
\* is no string (ids: its elements that are strings)
MalformedKinds == {"not_json", "not_array", "mixed_array"}

Malformed(kind, ids) == [kind |-> kind, ids |-> ids]

\* what the store and the platform can hold when the record under
\* STORAGE_KEY_IDS is not what setStoredIds wrote, next to the states it wrote
DamagedStates ==
  { [ids |-> AbsentRaw, legacy |-> NULL, scheduled |-> {}, nextId |-> 1],
    [ids |-> JSONstringify(<<1>>), legacy |-> NULL,
     scheduled |-> {[id |-> 1, trigger |-> DateTrigger(PriorWhen)]}, nextId |-> 2],
    [ids |-> Malformed("not_json", <<>>), legacy |-> NULL,
     scheduled |-> {[id |-> 1, trigger |-> DateTrigger(PriorWhen)]}, nextId |-> 2],
    [ids |-> Malformed("not_array", <<>>), legacy |-> NULL,
     scheduled |-> {[id |-> 1, trigger |-> DateTrigger(PriorWhen)]}, nextId |-> 2],
    [ids |-> Malformed("mixed_array", <<2>>), legacy |-> LegacyId,
     scheduled |-> {[id |-> LegacyId, trigger |-> DateTrigger(PriorWhen)],
                    [id |-> 2, trigger |-> IntervalTrigger(10)]}, nextId |-> 3] }

InitDamaged ==
  /\ \E s \in DamagedStates :
       /\ idsKey = s.ids
       /\ legacyKey = s.legacy
       /\ scheduled = s.scheduled
       /\ nextId = s.nextId
  /\ delivered = {}
  /\ task = [p \in Procs |-> IdleTask]
  /\ hist = [p \in Procs |-> NoHist]
  /\ started = 0
  /\ CacheAtLoad
  /\ SunUnset
  /\ AppAtMount
  /\ ScreenAtMount

\* the ids an unusual platform can return from scheduleNotificationAsync: the
\* empty string, or an identifier that is tracked already
UnusualIds == {EmptyId} \cup SeqToSet(safeParseIdArray(idsKey))

\* const id = await Notifications.scheduleNotificationAsync(...) on a platform
\* that returns such an id; a notification of that identifier is replaced
ScheduleNotificationUnusual(p, id) ==
  /\ task[p].pc = "create"
  /\ id \in UnusualIds
  /\ scheduled' = {n \in scheduled : n.id # id} \cup {[id |-> id, trigger |-> TriggerOf(task[p])]}
  /\ task' = [task EXCEPT ![p].newId = id, ![p].pc = "add_get"]
  /\ UNCHANGED <<idsKey, legacyKey, delivered, nextId, hist, started, cacheVars, sunVars, appVars, screenVars>>

NextDamaged ==
  \/ \E p \in Procs : StartSchedule(p, NextWhen)
  \/ \E p \in Procs, minutes \in SnoozeMinutes : StartSnooze(p, minutes)
  \/ \E p \in Procs : StartCancel(p)
  \/ \E p \in Procs : ClearGetIds(p)
  \/ \E p \in Procs : ClearGetLegacy(p)
  \/ \E p \in Procs : ClearRemoveIds(p)
  \/ \E p \in Procs : ClearRemoveLegacy(p)
  \/ \E p \in Procs, ok \in BOOLEAN : \E id \in task[p].toCancel : CancelScheduled(p, id, ok)
  \/ \E p \in Procs, ok \in BOOLEAN : \E id \in task[p].toDismiss : DismissDelivered(p, id, ok)
  \/ \E p \in Procs, ok \in BOOLEAN : InitAlarmNotifications(p, ok)
  \/ \E p \in Procs, ok \in BOOLEAN : ScheduleNotification(p, ok)
  \/ \E p \in Procs : \E id \in UnusualIds : ScheduleNotificationUnusual(p, id)
  \/ \E p \in Procs : AddGetIds(p)
  \/ \E p \in Procs : AddSetIds(p)
  \/ \E p \in Procs : Return(p)

SpecDamaged == InitDamaged /\ [][NextDamaged]_vars

\* ------------------------------------------------------ the weather cache
MaxCacheOps == 3
\* number of cache calls started in one behaviour

DEFAULT_TTL_MS == 300000

\* the instants Date.now() takes: a start and the two instants around the
\* default time to live
Instants == {0, DEFAULT_TTL_MS - 1, DEFAULT_TTL_MS}

\* the ttlMs argument of getCachedWeather: left out (NULL), or a millisecond
\* less than the default
TtlArgs == {NULL, DEFAULT_TTL_MS - 1}

\* coordinates <<latitude, longitude>> in units of 0.0001 degree, none of them
\* halfway between two thousandths: 0.0001 and 0.0004 round to 0.000, -0.0001
\* rounds to zero from below, 0.0006 rounds to 0.001
Locations == {<<1, 60>>, <<-1, 60>>, <<6, 60>>}

\* what a caller passes to updateWeatherCache: a bundle (with the instant it
\* was fetched, WeatherBundle.fetchedAtMs) and an air quality (number | null)
Payloads == {[bundle |-> [id |-> 1, fetchedAtMs |-> 0], airQuality |-> NULL],
             [bundle |-> [id |-> 2, fetchedAtMs |-> 0], airQuality |-> 40]}

Abs(x) == IF x < 0 THEN -x ELSE x

\* Number.prototype.toFixed(3) of c/10000: the sign is taken from c and the
\* magnitude is rounded to the nearest thousandth, so that a negative number
\* that rounds to zero prints as "-0.000"
toFixed3(c) == [neg |-> c < 0, thousandths |-> (Abs(c) + 5) \div 10]

\* `${latitude.toFixed(3)},${longitude.toFixed(3)}`
makeCacheKey(latitude, longitude) == <<toFixed3(latitude), toFixed3(longitude)>>

\* isFresh that still counts an entry exactly ttlMs old
isFreshInclusive(fetchedAtMs, ttlMs) == now - fetchedAtMs <= ttlMs

\* Date.now() - fetchedAtMs < ttlMs
isFresh(fetchedAtMs, ttlMs) == now - fetchedAtMs < ttlMs

\* JSON.stringify(entry)
JSONstringifyEntry(entry) == [kind |-> "object", entry |-> entry]

\* the entry an earlier run of the app left in the persistent store
PriorEntry == [key |-> makeCacheKey(4, 62), fetchedAtMs |-> 0,
               bundle |-> [id |-> 3, fetchedAtMs |-> 0], airQuality |-> NULL]

\* what the persistent store can hold under CACHE_KEY when the app starts:
\* nothing, a valid entry, text that is no JSON, JSON that is no object, an
\* object without a numeric fetchedAtMs, an object without a bundle
PriorItems ==
  { AbsentItem,
    JSONstringifyEntry(PriorEntry),
    [kind |-> "not_json", entry |-> NoEntry],
    [kind |-> "not_object", entry |-> NoEntry],
    JSONstringifyEntry([PriorEntry EXCEPT !.fetchedAtMs = NULL]),
    JSONstringifyEntry([PriorEntry EXCEPT !.bundle = NoBundle]) }

\* readPersistentCache on the raw value getItem returned: null for an absent
\* value, for a JSON.parse that throws and for every failed shape test
readPersistentCache(raw) ==
  IF raw.kind = "null" THEN NoEntry
  ELSE IF raw.kind = "not_json" THEN NoEntry
  ELSE IF raw.kind = "not_object" THEN NoEntry
  ELSE IF raw.entry.key = NoKey \/ raw.entry.fetchedAtMs = NULL THEN NoEntry
  ELSE IF raw.entry.bundle = NoBundle THEN NoEntry
  ELSE raw.entry

\* the default parameter: ttlMs = DEFAULT_TTL_MS
TtlOf(t) == IF t.ttlArg = NULL THEN DEFAULT_TTL_MS ELSE t.ttlArg

\* { bundle, airQuality, isFresh: isFresh(entry.fetchedAtMs, ttlMs) }
Served(entry, ttlMs) ==
  [bundle |-> entry.bundle, airQuality |-> entry.airQuality,
   isFresh |-> isFresh(entry.fetchedAtMs, ttlMs)]

\* an entry stamped with the time its bundle was fetched
NewEntryBundleTime(key, bundle, airQuality) ==
  [key |-> key, fetchedAtMs |-> bundle.fetchedAtMs, bundle |-> bundle, airQuality |-> airQuality]

\* const entry = { key, fetchedAtMs: Date.now(), bundle, airQuality }
NewEntry(key, bundle, airQuality) ==
  [key |-> key, fetchedAtMs |-> now, bundle |-> bundle, airQuality |-> airQuality]

\* a getCachedWeather that returns the persisted entry and leaves memory alone
NotPromoted(memory, persisted) == memory

\* memoryCache = persisted
Promoted(memory, persisted) == persisted

WInFlight(q) == wtask[q].pc \notin {"idle", "done"}

\* no call has returned a value its caller has not yet taken
NoneDone == \A q \in WProcs : wtask[q].pc # "done"

Quiet(p) == \A r \in WProcs \ {p} : ~WInFlight(r)

CanStart(p) ==
  /\ wtask[p].pc = "idle"
  /\ \A q \in WProcs : wtask[q].pc = "idle" => p <= q
  /\ NoneDone
  /\ wstarted < MaxCacheOps

\* a fresh cache call and how it starts; a running call that sees another one
\* start is no longer alone
Started(p, t) ==
  [q \in WProcs |->
     IF q = p
     THEN [t EXCEPT !.alone = Quiet(p),
                    !.follows = lastPut.undisturbed /\ Quiet(p),
                    !.promised = IF lastPut.entry.key = t.key THEN lastPut.entry.bundle
                                 ELSE NoBundle]
     ELSE IF WInFlight(q) THEN [wtask[q] EXCEPT !.alone = FALSE] ELSE wtask[q]]

\* getCachedWeather(latitude, longitude, ttlMs): up to its return on a memory
\* hit, or up to `await readPersistentCache()`
StartGet(p, loc, ttlArg) ==
  /\ CanStart(p)
  /\ LET key == makeCacheKey(loc[1], loc[2])
         t == [IdleWTask EXCEPT !.op = "get", !.loc = loc, !.key = key, !.ttlArg = ttlArg]
     IN  wtask' = Started(p,
                    IF memoryCache.key = key
                    THEN [t EXCEPT !.pc = "done", !.outcome = "ok", !.hit = memoryCache,
                                   !.at = now, !.result = Served(memoryCache, TtlOf(t))]
                    ELSE [t EXCEPT !.pc = "reading"])
  /\ lastPut' = [lastPut EXCEPT !.undisturbed = FALSE]
  /\ wstarted' = wstarted + 1
  /\ UNCHANGED <<memoryCache, cacheItem, now, alarmVars, sunVars, appVars, screenVars>>

\* readPersistentCache: AsyncStorage.getItem(CACHE_KEY) resolves, the value is
\* parsed and tested
ReadPersistent(p) ==
  /\ wtask[p].pc = "reading"
  /\ NoneDone
  /\ wtask' = [wtask EXCEPT ![p].persisted = readPersistentCache(cacheItem),
                            ![p].read = TRUE, ![p].pc = "loaded"]
  /\ UNCHANGED <<memoryCache, cacheItem, now, lastPut, wstarted, alarmVars, sunVars, appVars, screenVars>>

\* readPersistentCache: getItem rejects; catch { return null }
ReadReject(p) ==
  /\ wtask[p].pc = "reading"
  /\ NoneDone
  /\ wtask' = [wtask EXCEPT ![p].persisted = NoEntry, ![p].read = TRUE,
                            ![p].failed = TRUE, ![p].pc = "loaded"]
  /\ UNCHANGED <<memoryCache, cacheItem, now, lastPut, wstarted, alarmVars, sunVars, appVars, screenVars>>

\* getCachedWeather resumes with `persisted`: if (persisted?.key === key)
\* promote and return it, else return the null bundle
ResumeGet(p) ==
  /\ wtask[p].pc = "loaded"
  /\ NoneDone
  /\ LET t == wtask[p] IN
       IF t.persisted.key = t.key
       THEN /\ memoryCache' = Promoted(memoryCache, t.persisted)
            /\ wtask' = [wtask EXCEPT ![p] =
                           [t EXCEPT !.pc = "done", !.outcome = "ok", !.hit = t.persisted,
                                     !.at = now, !.result = Served(t.persisted, TtlOf(t))]]
       ELSE /\ wtask' = [wtask EXCEPT ![p] =
                           [t EXCEPT !.pc = "done", !.outcome = "ok", !.at = now,
                                     !.result = NoResult]]
            /\ UNCHANGED memoryCache
  /\ UNCHANGED <<cacheItem, now, lastPut, wstarted, alarmVars, sunVars, appVars, screenVars>>

\* updateWeatherCache(latitude, longitude, bundle, airQuality): builds the
\* entry, assigns memoryCache, runs up to `await AsyncStorage.setItem(...)`
StartPut(p, loc, payload) ==
  /\ CanStart(p)
  /\ LET key == makeCacheKey(loc[1], loc[2])
         entry == NewEntry(key, payload.bundle, payload.airQuality)
     IN  /\ memoryCache' = entry
         /\ lastPut' = [loc |-> loc, entry |-> entry, undisturbed |-> Quiet(p)]
         /\ wtask' = Started(p, [IdleWTask EXCEPT !.op = "put", !.loc = loc, !.key = key,
                                                  !.entry = entry, !.at = now,
                                                  !.pc = "writing"])
  /\ wstarted' = wstarted + 1
  /\ UNCHANGED <<cacheItem, now, alarmVars, sunVars, appVars, screenVars>>

\* writePersistentCache: setItem resolves; updateWeatherCache returns
WritePersistent(p) ==
  /\ wtask[p].pc = "writing"
  /\ NoneDone
  /\ cacheItem' = JSONstringifyEntry(wtask[p].entry)
  /\ wtask' = [wtask EXCEPT ![p].pc = "done", ![p].outcome = "ok"]
  /\ UNCHANGED <<memoryCache, now, lastPut, wstarted, alarmVars, sunVars, appVars, screenVars>>

\* a writePersistentCache without try/catch
WriteRejectedNoCatch(t) == [t EXCEPT !.pc = "done", !.outcome = "threw", !.failed = TRUE]

\* catch {} (best-effort cache): updateWeatherCache returns normally
WriteRejected(t) == [t EXCEPT !.pc = "done", !.outcome = "ok", !.failed = TRUE]

\* writePersistentCache: setItem rejects
WriteReject(p) ==
  /\ wtask[p].pc = "writing"
  /\ NoneDone
  /\ wtask' = [wtask EXCEPT ![p] = WriteRejected(@)]
  /\ UNCHANGED <<memoryCache, cacheItem, now, lastPut, wstarted, alarmVars, sunVars, appVars, screenVars>>

\* the caller takes the value returned; the slot is free for the next call
CacheReturn(p) ==
  /\ wtask[p].pc = "done"
  /\ wtask' = [wtask EXCEPT ![p] = IdleWTask]
  /\ UNCHANGED <<memoryCache, cacheItem, now, lastPut, wstarted, alarmVars, sunVars, appVars, screenVars>>

\* time passes between two calls (a call is short against the TTL)
Tick(t) ==
  /\ t > now
  /\ \A q \in WProcs : wtask[q].pc = "idle"
  /\ now' = t
  /\ UNCHANGED <<memoryCache, cacheItem, wtask, lastPut, wstarted, alarmVars, sunVars, appVars, screenVars>>

\* the alarm engine has nothing stored, pending or in flight
AlarmAtRest ==
  /\ idsKey = AbsentRaw
  /\ legacyKey = NULL
  /\ scheduled = {}
  /\ delivered = {}
  /\ nextId = 1
  /\ task = [p \in Procs |-> IdleTask]
  /\ hist = [p \in Procs |-> NoHist]
  /\ started = 0

\* the app has just started: memory is empty, the persistent store holds what
\* an earlier run left
InitCache ==
  /\ AlarmAtRest
  /\ SunUnset
  /\ AppAtMount
  /\ ScreenAtMount
  /\ memoryCache = NoEntry
  /\ cacheItem \in PriorItems
  /\ now = 0
  /\ wtask = [p \in WProcs |-> IdleWTask]
  /\ lastPut = NoPut
  /\ wstarted = 0

NextCache ==
  \/ \E p \in WProcs, loc \in Locations, ttlArg \in TtlArgs : StartGet(p, loc, ttlArg)
  \/ \E p \in WProcs : ReadPersistent(p)
  \/ \E p \in WProcs : ResumeGet(p)
  \/ \E p \in WProcs, loc \in Locations, payload \in Payloads : StartPut(p, loc, payload)
  \/ \E p \in WProcs : WritePersistent(p)
  \/ \E p \in WProcs : CacheReturn(p)
  \/ \E t \in Instants : Tick(t)

SpecCache == InitCache /\ [][NextCache]_vars

\* the same cache on a store whose calls can reject
NextCacheFail ==
  \/ NextCache
  \/ \E p \in WProcs : ReadReject(p)
  \/ \E p \in WProcs : WriteReject(p)

SpecCacheFail == InitCache /\ [][NextCacheFail]_vars

\* --------------------------------------------------- the sun's altitude
Hour == 60 * 60 * 1000

\* 24 * 60 * 60 * 1000
DayMs == 24 * Hour

\* today's sunrise and sunset and tomorrow's sunrise as the app can hold them
\* (milliseconds): not loaded, or the times the API gave; a sunset at or before
\* the sunrise, a day of 12 h and a day of 24 h; a tomorrow's sunrise before,
\* at and after today's sunset
Sunrises == {NoDate, 6 * Hour}

Sunsets == {NoDate, 0, 6 * Hour, 18 * Hour, 30 * Hour}

NextSunrises == {NoDate, 6 * Hour, 18 * Hour, 30 * Hour, 54 * Hour}

\* the instants the altitude is asked for: before, at and after each of the
\* times above, and the midpoints between them
AskedTimes == {h * Hour : h \in {-6, 0, 6, 9, 12, 15, 18, 24, 30, 33}}

\* Math.sin(Math.PI * k/24) to the nearest thousandth, for k in 0..12
SinQuarter == <<0, 131, 259, 383, 500, 609, 707, 793, 866, 924, 966, 991, 1000>>

\* Math.sin(Math.PI * k/24) to the nearest thousandth, for k in 0..48
SinMilli(k) ==
  IF k <= 12 THEN SinQuarter[k + 1]
  ELSE IF k <= 24 THEN SinQuarter[24 - k + 1]
  ELSE IF k <= 36 THEN -SinQuarter[k - 24 + 1]
  ELSE -SinQuarter[48 - k + 1]

\* the sign of the double Math.sin(Math.PI * k/24), for k in 0..48: Math.PI is
\* the double below pi, so Math.sin(Math.PI) is 1.2246467991473532e-16, above
\* 0, and Math.sin(2 * Math.PI) is below 0; Math.sin(0) is 0
SinSign(k) == IF k = 0 THEN 0 ELSE IF k <= 24 THEN 1 ELSE -1

\* (timeMs - start) / span as a number of 24ths; the times above make every
\* span a multiple of 24 ms and every progress a whole number of 24ths
Progress24(elapsed, span) == elapsed \div (span \div 24)

\* Math.sin(Math.PI * progress)
SinPi(elapsed, span) ==
  LET k == Progress24(elapsed, span)
  IN  [null |-> FALSE, milli |-> SinMilli(k), sign |-> SinSign(k)]

\* a night branch that returns the sine as it is
NotNegated(a) == a

\* the unary minus of `-Math.sin(...)`
Negated(a) == [a EXCEPT !.milli = -a.milli, !.sign = -a.sign]

\* a night end that ignores tomorrow's sunrise
NextSunriseFallbackOnly(s) == s.todaySunrise + DayMs

\* sunriseTime ? sunriseTime.getTime() : sunriseMs + 24 * 60 * 60 * 1000
NextSunrise(s) == IF s.sunriseTime # NoDate THEN s.sunriseTime ELSE s.todaySunrise + DayMs

getSunAltitude(s, timeMs) ==
  IF s.todaySunrise = NoDate \/ s.todaySunset = NoDate THEN NullAltitude
  ELSE
    LET sunriseMs == s.todaySunrise
        sunsetMs == s.todaySunset
    IN  IF sunsetMs <= sunriseMs THEN NullAltitude
        ELSE IF timeMs >= sunriseMs /\ timeMs <= sunsetMs
        THEN SinPi(timeMs - sunriseMs, sunsetMs - sunriseMs)
        ELSE
          LET nightStart == IF timeMs < sunriseMs THEN sunsetMs - DayMs ELSE sunsetMs
              nightEnd == IF timeMs < sunriseMs THEN sunriseMs ELSE NextSunrise(s)
              nightSpan == nightEnd - nightStart
          IN  IF nightSpan <= 0 THEN NullAltitude
              ELSE Negated(SinPi(timeMs - nightStart, nightSpan))

\* refreshSunTimes: the times of a fetch are put in state (all of them dates)
RefreshSunTimes(rise, set, next) ==
  /\ rise # NoDate /\ set # NoDate /\ next # NoDate
  /\ sun' = [NoSun EXCEPT !.todaySunrise = rise, !.todaySunset = set, !.sunriseTime = next]
  /\ UNCHANGED <<alarmVars, cacheVars, appVars, screenVars>>

\* a render computes getSunAltitude(timeMs) from the times in state
AskAltitude(timeMs) ==
  /\ sun' = [sun EXCEPT !.timeMs = timeMs, !.asked = TRUE,
                        !.altitude = getSunAltitude(sun, timeMs)]
  /\ UNCHANGED <<alarmVars, cacheVars, appVars, screenVars>>

InitSun ==
  /\ AlarmAtRest
  /\ CacheAtLoad
  /\ AppAtMount
  /\ ScreenAtMount
  /\ \E rise \in Sunrises, set \in Sunsets, next \in NextSunrises :
       sun = [NoSun EXCEPT !.todaySunrise = rise, !.todaySunset = set, !.sunriseTime = next]

NextSun ==
  \/ \E rise \in Sunrises, set \in Sunsets, next \in NextSunrises :
       RefreshSunTimes(rise, set, next)
  \/ \E timeMs \in AskedTimes : AskAltitude(timeMs)

SpecSun == InitSun /\ [][NextSun]_vars

\* ------------------------------------------ the alarm handlers of App
\* tomorrow's sunrise as the fetch of a handler reports it (the API's value
\* moves from day to day and with the place)
TomorrowSunrise == 30 * Hour + started

\* the sun times in state after a hydrate of an earlier launch
SunHydrated == [NoSun EXCEPT !.todaySunrise = 6 * Hour, !.todaySunset = 18 * Hour,
                             !.sunriseTime = 30 * Hour]

\* the states the app can be in when a handler starts: a fresh install that
\* is being launched; a running app, hydrated, with the alarm off; a running
\* app with the alarm on (one alarm tracked and pending), with the
\* notification permission still granted or meanwhile denied in the system
\* settings
AppStates ==
  { [ids |-> AbsentRaw, scheduled |-> {}, nextId |-> 1, settings |-> NoSettings,
     enabled |-> FALSE, place |-> DEFAULT_LOCATION, loading |-> TRUE, sun |-> NoSun,
     permission |-> "undetermined"],
    [ids |-> AbsentRaw, scheduled |-> {}, nextId |-> 1, settings |-> SavedSettings(FALSE, 1),
     enabled |-> FALSE, place |-> 1, loading |-> FALSE, sun |-> SunHydrated,
     permission |-> "undetermined"],
    [ids |-> JSONstringify(<<1>>),
     scheduled |-> {[id |-> 1, trigger |-> DateTrigger(30 * Hour)]}, nextId |-> 2,
     settings |-> SavedSettings(TRUE, 1),
     enabled |-> TRUE, place |-> 1, loading |-> FALSE, sun |-> SunHydrated,
     permission |-> "granted"],
    [ids |-> JSONstringify(<<1>>),
     scheduled |-> {[id |-> 1, trigger |-> DateTrigger(30 * Hour)]}, nextId |-> 2,
     settings |-> SavedSettings(TRUE, 1),
     enabled |-> TRUE, place |-> 1, loading |-> FALSE, sun |-> SunHydrated,
     permission |-> "denied"] }

InitApp ==
  /\ \E s \in AppStates :
       /\ idsKey = s.ids
       /\ scheduled = s.scheduled
       /\ nextId = s.nextId
       /\ settings = s.settings
       /\ alarmEnabled = s.enabled
       /\ location = s.place
       /\ loading = s.loading
       /\ sun = s.sun
       /\ permission = s.permission
  /\ legacyKey = NULL
  /\ delivered = {}
  /\ task = [p \in Procs |-> IdleTask]
  /\ hist = [p \in Procs |-> NoHist]
  /\ started = 0
  /\ app = [p \in Procs |-> IdleHandler]
  /\ CacheAtLoad
  /\ ScreenAtMount

Handling(q) == app[q].pc \notin {"idle", "done"}

\* a handler can start in slot p
CanHandle(p) ==
  /\ app[p].pc = "idle"
  /\ \A q \in Procs : app[q].pc = "idle" => p <= q
  /\ \A q \in Procs : app[q].pc # "done"
  /\ started < MaxOps

\* the handler h starts in slot p; a running handler that sees another one
\* start is no longer alone
Handle(p, h) ==
  [q \in Procs |->
     IF q = p
     THEN [h EXCEPT !.alone = \A r \in Others(p) : ~Handling(r),
                    !.preEnabled = alarmEnabled, !.preSettings = settings,
                    !.preTracked = Reachable, !.seq = started + 1]
     ELSE IF Handling(q) THEN [app[q] EXCEPT !.alone = FALSE] ELSE app[q]]

\* the handler of slot p calls an exported function of alarm.ts, which runs
\* up to its first await
Call(p, o, a, first) ==
  /\ task' = [task EXCEPT ![p] = [IdleTask EXCEPT !.pc = first, !.op = o, !.arg = a]]
  /\ hist' = [q \in Procs |->
                IF q = p
                THEN [NoHist EXCEPT !.alone = \A r \in Others(p) : ~InFlight(r),
                                    !.preIds = idsKey, !.preLegacy = legacyKey,
                                    !.preAllTracked = AllPendingTracked]
                ELSE IF InFlight(q) THEN [hist[q] EXCEPT !.alone = FALSE] ELSE hist[q]]

\* catch of onToggle that leaves the toggle as the handler set it
NotReverted(nextEnabled) == nextEnabled

\* setAlarmEnabled(!nextEnabled)
Reverted(nextEnabled) == ~nextEnabled

\* the handler of slot p ends in its catch block: hydrate alerts and, in
\* finally, clears loading; onToggle puts the toggle back; applyLocation
\* alerts and returns false
Caught(p, at) ==
  /\ app' = [app EXCEPT ![p].pc = "done", ![p].outcome = "failed", ![p].failedAt = at]
  /\ alarmEnabled' = IF app[p].handler = "toggle" THEN Reverted(app[p].nextEnabled)
                     ELSE alarmEnabled
  /\ loading' = IF app[p].handler = "hydrate" THEN FALSE ELSE loading

\* the handler of slot p returns normally (hydrate: finally clears loading)
Finished(h) == [h EXCEPT !.pc = "done", !.outcome = "ok"]

\* the app is launched (again): the component mounts with the useState
\* defaults and the mount effect calls hydrate(), which runs up to
\* `await loadSettings()`; what an earlier run left in the store and on the
\* platform is still there
Launch(p) ==
  /\ CanHandle(p)
  /\ \A q \in Procs : app[q].pc = "idle"
  /\ started' = started + 1
  /\ alarmEnabled' = FALSE
  /\ location' = DEFAULT_LOCATION
  /\ loading' = TRUE
  /\ sun' = NoSun
  /\ app' = Handle(p, [IdleHandler EXCEPT !.handler = "hydrate", !.pc = "load"])
  /\ UNCHANGED <<idsKey, legacyKey, Platform, task, hist, settings, permission,
                 cacheVars, screenVars>>

\* a hydrate that does not re-schedule
HydrateNeverSchedules(nextAlarmEnabled) == FALSE

\* if (nextAlarmEnabled) { ensureNotificationPermissions; scheduleSunriseAlarm }
HydrateSchedules(nextAlarmEnabled) == nextAlarmEnabled

\* hydrate: loadSettings resolved; setAlarmEnabled(!!saved?.alarmEnabled);
\* with a saved location: setLocation(loc), up to `await refreshSunTimes(loc)`;
\* without: up to `await getCurrentLocation()`
HydrateLoaded(p) ==
  /\ app[p].pc = "load"
  /\ alarmEnabled' = (settings.saved /\ settings.alarmEnabled)
  /\ IF settings.saved
     THEN /\ location' = settings.location
          /\ app' = [app EXCEPT ![p].nextEnabled = settings.alarmEnabled,
                                ![p].loc = settings.location, ![p].pc = "refresh"]
     ELSE /\ app' = [app EXCEPT ![p].nextEnabled = FALSE, ![p].pc = "locate"]
          /\ UNCHANGED location
  /\ UNCHANGED <<alarmVars, cacheVars, sunVars, screenVars, loading, settings, permission>>

\* hydrate: getCurrentLocation resolved with a place, with null or threw (then
\* DEFAULT_LOCATION is used); up to `await saveSettings(...)`
HydrateLocated(p, place) ==
  /\ app[p].pc = "locate"
  /\ app' = [app EXCEPT ![p].loc = place, ![p].pc = "hy_save"]
  /\ UNCHANGED <<alarmVars, cacheVars, sunVars, screenVars, alarmEnabled, location, loading,
                 settings, permission>>

\* hydrate: saveSettings({ alarmEnabled: nextAlarmEnabled, location: loc })
\* resolved; setLocation(loc); up to `await refreshSunTimes(loc)`
HydrateSaved(p) ==
  /\ app[p].pc = "hy_save"
  /\ settings' = SavedSettings(app[p].nextEnabled, app[p].loc)
  /\ location' = app[p].loc
  /\ app' = [app EXCEPT ![p].pc = "refresh"]
  /\ UNCHANGED <<alarmVars, cacheVars, sunVars, screenVars, alarmEnabled, loading, permission>>

\* where a handler goes with the sunrise it fetched: to
\* ensureNotificationPermissions if it re-schedules, else hydrate returns and
\* applyLocation saves
AfterRefresh(h, sunrise) ==
  IF h.handler = "hydrate"
  THEN IF HydrateSchedules(h.nextEnabled)
       THEN [h EXCEPT !.sunrise = sunrise, !.pc = "perm_get"]
       ELSE Finished([h EXCEPT !.sunrise = sunrise])
  ELSE IF h.nextEnabled /\ sunrise # NoDate
       THEN [h EXCEPT !.sunrise = sunrise, !.pc = "perm_get"]
       ELSE [h EXCEPT !.sunrise = sunrise, !.pc = "save"]

\* refreshSunTimes: fetchSunTimes resolved and the four times are put in
\* state, or it threw
Refreshed(p, ok) ==
  /\ app[p].pc = "refresh"
  /\ IF ok
     THEN /\ sun' = [sun EXCEPT !.todaySunrise = 6 * Hour, !.todaySunset = 18 * Hour,
                                !.sunriseTime = TomorrowSunrise]
          /\ app' = [app EXCEPT ![p] = AfterRefresh(@, TomorrowSunrise)]
          /\ loading' = IF app'[p].pc = "done" THEN FALSE ELSE loading
          /\ UNCHANGED alarmEnabled
     ELSE /\ Caught(p, "fetch")
          /\ UNCHANGED sun
  /\ UNCHANGED <<alarmVars, cacheVars, screenVars, location, settings, permission>>

\* ensureNotificationPermissions: getPermissionsAsync resolved; if granted it
\* returns and the handler calls scheduleSunriseAlarm, else up to
\* `await requestPermissionsAsync()`
GotPermissions(p) ==
  /\ app[p].pc = "perm_get"
  /\ IF permission = "granted"
     THEN /\ app' = [app EXCEPT ![p].pc = "engine"]
          /\ Call(p, "schedule", app[p].sunrise, "clr_getIds")
     ELSE /\ app' = [app EXCEPT ![p].pc = "perm_req"]
          /\ UNCHANGED <<task, hist>>
  /\ UNCHANGED <<idsKey, legacyKey, Platform, started, cacheVars, sunVars, screenVars,
                 alarmEnabled, location, loading, settings, permission>>

\* ensureNotificationPermissions: requestPermissionsAsync resolved (a denied
\* permission stays denied); not granted: throw
RequestedPermissions(p, granted) ==
  /\ app[p].pc = "perm_req"
  /\ permission = "denied" => ~granted
  /\ permission' = IF granted THEN "granted" ELSE "denied"
  /\ IF granted
     THEN /\ app' = [app EXCEPT ![p].pc = "engine"]
          /\ Call(p, "schedule", app[p].sunrise, "clr_getIds")
          /\ UNCHANGED <<alarmEnabled, loading>>
     ELSE /\ Caught(p, "permission")
          /\ UNCHANGED <<task, hist>>
  /\ UNCHANGED <<idsKey, legacyKey, Platform, started, cacheVars, sunVars, screenVars,
                 location, settings>>

\* scheduleSunriseAlarm / cancelSunriseAlarm has returned to the handler or
\* has thrown: hydrate returns, onToggle and applyLocation go on to
\* `await saveSettings(...)`; an error goes to the catch block
EngineReturned(p) ==
  /\ app[p].pc = "engine"
  /\ task[p].pc = "done"
  /\ task' = [task EXCEPT ![p] = IdleTask]
  /\ hist' = [hist EXCEPT ![p] = NoHist]
  /\ IF task[p].outcome = "ok"
     THEN /\ app' = [app EXCEPT ![p] =
                       LET h == [@ EXCEPT !.newId = task[p].newId,
                                          !.cancelsOk = CancelsTookEffect(p)]
                       IN  IF h.handler = "hydrate" THEN Finished(h) ELSE [h EXCEPT !.pc = "save"]]
          /\ loading' = IF app[p].handler = "hydrate" THEN FALSE ELSE loading
          /\ UNCHANGED alarmEnabled
     ELSE Caught(p, task[p].op)
  /\ UNCHANGED <<idsKey, legacyKey, Platform, started, cacheVars, sunVars, screenVars,
                 location, settings, permission>>

\* saveSettings({ alarmEnabled: nextEnabled, location }) of onToggle, or
\* saveSettings({ alarmEnabled, location: nextLocation }) of applyLocation,
\* resolved; the handler returns
Saved(p) ==
  /\ app[p].pc = "save"
  /\ settings' = SavedSettings(app[p].nextEnabled, app[p].loc)
  /\ app' = [app EXCEPT ![p] = Finished(@)]
  /\ UNCHANGED <<alarmVars, cacheVars, sunVars, screenVars, alarmEnabled, location, loading,
                 permission>>

\* onToggle (the button is enabled: canToggle): setAlarmEnabled(nextEnabled),
\* then up to `await getPermissionsAsync()` when enabling, or into
\* cancelSunriseAlarm when disabling
StartToggle(p) ==
  /\ CanHandle(p)
  /\ sun.sunriseTime # NoDate /\ ~loading
  /\ started' = started + 1
  /\ alarmEnabled' = ~alarmEnabled
  /\ LET h == [IdleHandler EXCEPT !.handler = "toggle", !.nextEnabled = ~alarmEnabled,
                                  !.sunrise = sun.sunriseTime, !.loc = location]
     IN  IF ~alarmEnabled
         THEN /\ app' = Handle(p, [h EXCEPT !.pc = "perm_get"])
              /\ UNCHANGED <<task, hist>>
         ELSE /\ app' = Handle(p, [h EXCEPT !.pc = "engine"])
              /\ Call(p, "cancel", 0, "clr_getIds")
  /\ UNCHANGED <<idsKey, legacyKey, Platform, cacheVars, sunVars, screenVars,
                 location, loading, settings, permission>>

\* applyLocation(nextLocation) (one at a time: locationBusy):
\* setLocation(nextLocation), up to `await refreshSunTimes(nextLocation)`
StartApply(p, place) ==
  /\ CanHandle(p)
  /\ \A q \in Procs : app[q].handler # "apply"
  /\ started' = started + 1
  /\ location' = place
  /\ app' = Handle(p, [IdleHandler EXCEPT !.handler = "apply", !.nextEnabled = alarmEnabled,
                                          !.loc = place, !.pc = "refresh"])
  /\ UNCHANGED <<idsKey, legacyKey, Platform, task, hist, cacheVars, sunVars, screenVars,
                 alarmEnabled, loading, settings, permission>>

\* the handler of slot p has returned to its caller
HandlerReturn(p) ==
  /\ app[p].pc = "done"
  /\ app' = [app EXCEPT ![p] = IdleHandler]
  /\ UNCHANGED <<alarmVars, cacheVars, sunVars, screenVars, alarmEnabled, location, loading,
                 settings, permission>>

\* a step of alarm.ts inside a call made by a handler
AlarmStep ==
  \/ \E p \in Procs : ClearGetIds(p)
  \/ \E p \in Procs : ClearGetLegacy(p)
  \/ \E p \in Procs : ClearRemoveIds(p)
  \/ \E p \in Procs : ClearRemoveLegacy(p)
  \/ \E p \in Procs, ok \in BOOLEAN : \E id \in task[p].toCancel : CancelScheduled(p, id, ok)
  \/ \E p \in Procs, ok \in BOOLEAN : \E id \in task[p].toDismiss : DismissDelivered(p, id, ok)
  \/ \E p \in Procs, ok \in BOOLEAN : InitAlarmNotifications(p, ok)
  \/ \E p \in Procs, ok \in BOOLEAN : ScheduleNotification(p, ok)
  \/ \E p \in Procs : AddGetIds(p)
  \/ \E p \in Procs : AddSetIds(p)

NextApp ==
  \/ \E p \in Procs : Launch(p)
  \/ \E p \in Procs : HydrateLoaded(p)
  \/ \E p \in Procs, place \in Places \cup {DEFAULT_LOCATION} : HydrateLocated(p, place)
  \/ \E p \in Procs : HydrateSaved(p)
  \/ \E p \in Procs, ok \in BOOLEAN : Refreshed(p, ok)
  \/ \E p \in Procs : GotPermissions(p)
  \/ \E p \in Procs, granted \in BOOLEAN : RequestedPermissions(p, granted)
  \/ \E p \in Procs : EngineReturned(p)
  \/ \E p \in Procs : Saved(p)
  \/ \E p \in Procs : StartToggle(p)
  \/ \E p \in Procs, place \in Places : StartApply(p, place)
  \/ \E p \in Procs : HandlerReturn(p)
  \/ AlarmStep

SpecApp == InitApp /\ [][NextApp]_vars

\* ------------------------------------------------- the weather screen
Screens == {"main", "weather", "sun"}

\* how the four fetches of one run settle (Promise.allSettled): fulfilled or
\* rejected, each on its own
FetchResults == [current : BOOLEAN, forecast : BOOLEAN, details : BOOLEAN, air : BOOLEAN]

\* a value that the run e of the effect computed from its fetches
ValueOf(e, part) == [from |-> e, part |-> part]

\* an effect whose callbacks do not test `active`
IsActiveAlways(e) == TRUE

\* if (!active) return  (the negation: the callback goes on)
IsActive(e) == effect[e].active

\* React runs the cleanup of the previous run: active = false
Cleanup(eff, cur) == IF cur = 0 THEN eff ELSE [eff EXCEPT ![cur].active = FALSE]

\* the run that starts next
NextEffect == CHOOSE e \in Effects : effect[e].state = "unused" /\ \A d \in Effects : d < e => effect[d].state # "unused"

\* a dependency of the effect changed: the previous cleanup runs, then the
\* effect: it returns at once off the weather screen; on it, it sets active,
\* resets the weather state (not the temperature) and starts the four fetches
RunEffect(scr, place) ==
  IF scr # "weather"
  THEN /\ effect' = Cleanup(effect, current)
       /\ current' = 0
       /\ UNCHANGED shown
  ELSE /\ \E e \in Effects : effect[e].state = "unused"
       /\ effect' = [Cleanup(effect, current) EXCEPT ![NextEffect] =
                       [state |-> "pending", active |-> TRUE, place |-> place, applied |-> FALSE]]
       /\ current' = NextEffect
       /\ shown' = [shown EXCEPT !.weatherLoading = TRUE, !.weatherError = NoValue,
                                 !.weeklyForecast = NoValue, !.weatherDetails = NoValue,
                                 !.weatherCode = NoValue]

\* setScreen(s)
Navigate(s) ==
  /\ screen \in Screens /\ s # screen
  /\ screen' = s
  /\ RunEffect(s, location)
  /\ UNCHANGED <<alarmVars, cacheVars, sunVars, appVars>>

\* setLocation(l) with other coordinates
ChangeLocation(l) ==
  /\ screen \in Screens /\ l # location
  /\ location' = l
  /\ RunEffect(screen, l)
  /\ UNCHANGED <<screen, alarmEnabled, loading, settings, permission, app,
                 alarmVars, cacheVars, sunVars>>

\* the component is unmounted: the cleanup runs
Unmount ==
  /\ screen \in Screens
  /\ screen' = "unmounted"
  /\ effect' = Cleanup(effect, current)
  /\ current' = 0
  /\ UNCHANGED <<shown, alarmVars, cacheVars, sunVars, appVars>>

\* the body of .then after `if (!active) return`
Applied(sh, e, r) ==
  [sh EXCEPT
     !.temperature = IF r.current THEN ValueOf(e, "current") ELSE NoValue,
     !.weatherCode = IF r.current THEN ValueOf(e, "current") ELSE NoValue,
     !.weatherError = IF r.current THEN @ ELSE ValueOf(e, "message"),
     !.weeklyForecast = IF r.forecast THEN ValueOf(e, "forecast") ELSE NoValue,
     !.weatherDetails = IF r.details /\ r.air THEN ValueOf(e, "details and air")
                        ELSE IF r.details THEN ValueOf(e, "details")
                        ELSE IF r.air THEN ValueOf(e, "air")
                        ELSE NoValue]

\* Promise.allSettled of run e resolves: its .then callback runs
Settle(e, r) ==
  /\ effect[e].state = "pending"
  /\ effect' = [effect EXCEPT ![e].state = "settled", ![e].applied = IsActive(e)]
  /\ shown' = IF IsActive(e) THEN Applied(shown, e, r) ELSE shown
  /\ UNCHANGED <<screen, current, alarmVars, cacheVars, sunVars, appVars>>

\* the .finally callback of run e
Finally(e) ==
  /\ effect[e].state = "settled"
  /\ effect' = [effect EXCEPT ![e].state = "finished"]
  /\ shown' = IF IsActive(e) THEN [shown EXCEPT !.weatherLoading = FALSE] ELSE shown
  /\ UNCHANGED <<screen, current, alarmVars, cacheVars, sunVars, appVars>>

InitScreen ==
  /\ AlarmAtRest
  /\ CacheAtLoad
  /\ SunUnset
  /\ AppAtMount
  /\ ScreenAtMount

NextScreen ==
  \/ \E s \in Screens : Navigate(s)
  \/ \E l \in Places \cup {DEFAULT_LOCATION} : ChangeLocation(l)
  \/ Unmount
  \/ \E e \in Effects, r \in FetchResults : Settle(e, r)
  \/ \E e \in Effects : Finally(e)

SpecScreen == InitScreen /\ [][NextScreen]_vars

TypeOK ==
  /\ idsKey.kind \in RawKinds
  /\ legacyKey \in {NULL} \cup Nat
  /\ \A n \in scheduled : n.id \in Nat
  /\ delivered \subseteq Nat
  /\ started \in 0..MaxOps

\* ------------------------------------------------------------- the claims
Tracked == safeParseIdArray(idsKey)

TrackedSet == SeqToSet(Tracked)

Done(p, o) == task[p].pc = "done" /\ task[p].op = o

Returned(p, o) == Done(p, o) /\ task[p].outcome = "ok"

\* the call of slot p ran with no other call in flight at any time
Alone(p) == hist[p].alone

\* the ids in the store when the call of slot p started
PreTracked(p) == SeqToSet(safeParseIdArray(hist[p].preIds))

PreLegacy(p) == IF hist[p].preLegacy = NULL THEN {} ELSE {hist[p].preLegacy}

NewNotification(p) == [id |-> task[p].newId, trigger |-> DateTrigger(task[p].arg)]

\* C1: whatever the store held before, a scheduleSunriseAlarm(when) that ran
\* alone and returned leaves exactly one tracked id, the id the platform
\* returned for the notification bound to `when`.
C1_ScheduleTracksOnlyNewId ==
  \A p \in Procs :
    Returned(p, "schedule") /\ Alone(p) =>
      /\ Tracked = <<task[p].newId>>
      /\ NewNotification(p) \in scheduled

\* a schedule returned alone over a store that held several ids
C1_Witness ==
  \E p \in Procs :
    /\ Returned(p, "schedule") /\ Alone(p)
    /\ Cardinality(PreTracked(p)) >= 2
    /\ Tracked = <<task[p].newId>>

\* C2: a scheduleSunriseAlarm that runs alone, from a state where every pending
\* notification is tracked, and whose platform cancels succeed, has cancelled
\* every earlier notification before it creates the new one, and when it
\* returns the only pending notification is the one for its `when`.  (A run of
\* non-overlapping calls keeps "every pending notification is tracked".)
C2_OnlyLastAlarmPending ==
  \A p \in Procs :
    task[p].op = "schedule" /\ Alone(p) /\ hist[p].preAllTracked /\ CancelsTookEffect(p) =>
      /\ task[p].pc \in {"init", "create"} => scheduled = {}
      /\ Returned(p, "schedule") => scheduled = {NewNotification(p)} /\ AllPendingTracked

\* the second schedule of a run returned; the alarm of the first was pending
\* when it started and is no longer
C2_Witness ==
  \E p \in Procs :
    /\ Returned(p, "schedule") /\ Alone(p) /\ hist[p].preAllTracked
    /\ started = 2
    /\ hist[p].cancelReq # {}
    /\ scheduled = {NewNotification(p)}

\* C3: once two overlapping scheduleSunriseAlarm calls have both returned
\* (their platform cancels having taken effect), exactly one id is tracked and
\* exactly one notification is pending.
C3_ReentrantScheduleSafe ==
  \A p, q \in Procs :
    p # q /\ Returned(p, "schedule") /\ Returned(q, "schedule")
         /\ CancelsTookEffect(p) /\ CancelsTookEffect(q) =>
      /\ Len(Tracked) = 1
      /\ Cardinality(scheduled) = 1

\* C4: after a cancelSunriseAlarm that ran alone has returned, the tracked-set
\* key and the legacy key are absent, and for every id that was under either
\* key when it started both a platform cancel and a dismiss were requested.
C4_CancelClearsAndRequestsAll ==
  \A p \in Procs :
    Returned(p, "cancel") /\ Alone(p) =>
      /\ idsKey = AbsentRaw
      /\ Tracked = <<>>
      /\ legacyKey = NULL
      /\ PreTracked(p) \cup PreLegacy(p) \subseteq hist[p].cancelReq \cap hist[p].dismissReq

\* a cancel returned that found an id under each key
C4_Witness ==
  \E p \in Procs :
    /\ Returned(p, "cancel") /\ Alone(p)
    /\ PreTracked(p) # {} /\ PreLegacy(p) # {}
    /\ PreTracked(p) \cup PreLegacy(p) \subseteq hist[p].dismissReq

\* the ids cancelSunriseAlarm got from clearStoredIds, while the call still holds them
CancelPhaseOver(p) ==
  \/ Done(p, "cancel")
  \/ task[p].op = "schedule" /\ task[p].pc \in {"init", "create"}

\* C5: in cancelSunriseAlarm a rejected platform cancel or dismiss stops
\* nothing: when the per-id chains have finished, a cancel and a dismiss have
\* been requested for every id that clearStoredIds returned (also for an id
\* whose cancel rejected), and cancelSunriseAlarm has not thrown.
C5_PerIdIsolation ==
  \A p \in Procs :
    /\ CancelPhaseOver(p) =>
         /\ hist[p].cancelReq = SeqToSet(clearStoredIds(task[p].ids, task[p].legacy))
         /\ hist[p].dismissReq = hist[p].cancelReq
    /\ task[p].op = "cancel" /\ task[p].pc = "cancel_each" =>
         hist[p].dismissReq \subseteq hist[p].cancelReq
    /\ Done(p, "cancel") => task[p].outcome = "ok"

\* a cancel returned although the platform cancel of one id rejected (it is
\* still pending) and the dismiss of another rejected (it is still in the tray);
\* the dismiss of the first id was requested all the same
C5_Witness ==
  \E p \in Procs :
    /\ Returned(p, "cancel") /\ Alone(p)
    /\ \E id \in hist[p].cancelReq : id \in ScheduledIds /\ id \in hist[p].dismissReq
    /\ \E id \in hist[p].dismissReq : id \in delivered

\* C6: cancelSunriseAlarm never throws, whichever call made during it rejects,
\* the store reads and removes of clearStoredIds included.
C6_CancelNeverThrows ==
  \A p \in Procs : Done(p, "cancel") => task[p].outcome = "ok"

\* C7: a cancelSunriseAlarm that starts with no tracked id and no legacy record
\* does not throw, requests no platform cancel and no dismiss, and leaves both
\* keys empty: the state a first cancel left is the state a second one leaves.
C7_CancelOnEmptyIsNoop ==
  \A p \in Procs :
    Done(p, "cancel") /\ Alone(p) /\ PreTracked(p) = {} /\ PreLegacy(p) = {} =>
      /\ task[p].outcome = "ok"
      /\ hist[p].cancelReq = {}
      /\ hist[p].dismissReq = {}
      /\ Tracked = <<>>
      /\ legacyKey = NULL

\* the second call of a run is a cancel that found the store empty and returned
C7_Witness ==
  \E p \in Procs :
    /\ Returned(p, "cancel") /\ Alone(p)
    /\ PreTracked(p) = {} /\ PreLegacy(p) = {}
    /\ started = 2
    /\ hist[p].cancelReq = {}

\* C8: a cancelSunriseAlarm that ran alone requested the platform cancel of
\* exactly the ids of the tracked set united with the legacy id, and afterwards
\* neither the legacy key nor the tracked-set key is in the store.
C8_LegacyMigratedOnCancel ==
  \A p \in Procs :
    Returned(p, "cancel") /\ Alone(p) =>
      /\ hist[p].cancelReq = PreTracked(p) \cup PreLegacy(p)
      /\ PreLegacy(p) \subseteq hist[p].cancelReq
      /\ legacyKey = NULL /\ idsKey.kind = "null"

\* the first cancel over a store that held only the legacy record
C8_Witness ==
  \E p \in Procs :
    /\ Returned(p, "cancel") /\ Alone(p)
    /\ hist[p].preIds = AbsentRaw /\ hist[p].preLegacy = LegacyId
    /\ LegacyId \in hist[p].cancelReq
    /\ started = 1

\* C9 as stated: after any operation that reads the tracked set has completed
\* (schedule, snooze, cancel), the legacy key no longer exists.
C9_LegacyGoneAfterEveryRead ==
  \A p \in Procs : task[p].pc = "done" /\ task[p].outcome = "ok" => legacyKey = NULL

\* C9 amended: the legacy record is migrated by clearStoredIds only.  After a
\* scheduleSunriseAlarm or a cancelSunriseAlarm the legacy key is gone and the
\* cancel of its id was requested; scheduleSnooze (getStoredIds, addStoredId)
\* neither reads nor deletes it and does not put its id into the tracked set.
C9_LegacyMigratedByClearOnly ==
  \A p \in Procs :
    /\ task[p].pc = "done" /\ task[p].op \in {"schedule", "cancel"} =>
         /\ legacyKey = NULL
         /\ Alone(p) => PreLegacy(p) \subseteq hist[p].cancelReq
    /\ Returned(p, "snooze") /\ Alone(p) =>
         /\ legacyKey = hist[p].preLegacy
         /\ TrackedSet = PreTracked(p) \cup {task[p].newId}

\* a snooze returned and the legacy record is still in the store
C9_Witness ==
  \E p \in Procs :
    /\ Returned(p, "snooze") /\ Alone(p)
    /\ legacyKey = LegacyId
    /\ LegacyId \notin TrackedSet

\* C10: scheduleSnooze requests no platform cancel and no dismiss at any point,
\* and when it has run alone and returned the tracked set is the set before
\* the call plus the id the platform returned (every earlier id still tracked).
C10_SnoozeCancelsNothing ==
  \A p \in Procs :
    task[p].op = "snooze" =>
      /\ hist[p].cancelReq = {} /\ hist[p].dismissReq = {}
      /\ task[p].toCancel = {} /\ task[p].toDismiss = {}
      /\ Returned(p, "snooze") /\ Alone(p) =>
           /\ PreTracked(p) \subseteq TrackedSet
           /\ TrackedSet = PreTracked(p) \cup {task[p].newId}
           /\ Len(Tracked) = Cardinality(PreTracked(p)) + 1
           /\ [id |-> task[p].newId, trigger |-> IntervalTrigger(task[p].arg)] \in scheduled

\* a snooze returned over a store that already tracked an alarm
C10_Witness ==
  \E p \in Procs :
    /\ Returned(p, "snooze") /\ Alone(p)
    /\ PreTracked(p) # {}
    /\ PreTracked(p) \subseteq TrackedSet
    /\ task[p].newId \in TrackedSet

\* ------------------------------------------------ claims on the listener
Listening(p) == task[p].op = "listener"

\* the listener of p has finished its work on the response (returned or threw)
Listened(p) == Listening(p) /\ task[p].pc = "done"

\* C11: a response carrying neither the alarm data kind nor the alarm category
\* is ignored: the listener returns at once, requests no dismissal, cancel or
\* schedule, calls no handler and leaves store and pending notifications as they
\* were; a response carrying either marker is handled: the dismissal of the
\* notification acted on is requested
C11_ListenerHandlesOnlyAlarmResponses ==
  \A p \in Procs : Listening(p) =>
    LET r == task[p].response IN
      /\ (~r.kind /\ ~r.category) =>
           /\ task[p].pc = "done" /\ task[p].outcome = "ok"
           /\ hist[p].actedOn = NULL
           /\ hist[p].cancelReq = {} /\ hist[p].dismissReq = {}
           /\ task[p].newId = NULL
           /\ hist[p].called = "none"
           /\ hist[p].alone =>
                /\ idsKey = hist[p].preIds
                /\ legacyKey = hist[p].preLegacy
                /\ scheduled = hist[p].preScheduled
      /\ (r.kind \/ r.category) =>
           (task[p].pc # "lst_dismiss" => hist[p].actedOn = r.id)

\* an unmarked response to a notification in the tray was ignored while an
\* alarm was tracked and pending
C11_Witness ==
  \E p \in Procs :
    /\ Listened(p)
    /\ ~task[p].response.kind /\ ~task[p].response.category
    /\ task[p].response.id \in delivered
    /\ task[p].response.action = ALARM_ACTION_STOP
    /\ Reachable # {} /\ scheduled # {}

\* the tracked ids the handler of p found when it was called
TrackedAtCall(p) == hist[p].trackedAtCall

\* the order of the listener's steps: a handler was called only after the
\* dismissal of the notification acted on was requested and after the scheduler
\* operation returned: onStop with the tracked set already empty, onSnooze with
\* the argument 10 and the new id already tracked (for a listener that ran alone)
ListenerOrder ==
  \A p \in Procs : Listening(p) /\ hist[p].called # "none" =>
    /\ hist[p].actedOn = task[p].response.id
    /\ hist[p].called = "onStop" =>
         /\ task[p].response.action = ALARM_ACTION_STOP
         /\ hist[p].alone => TrackedAtCall(p) = {}
    /\ hist[p].called = "onSnooze" =>
         /\ task[p].response.action = ALARM_ACTION_SNOOZE_10
         /\ hist[p].calledWith = 10
         /\ task[p].newId # NULL
         /\ hist[p].alone => task[p].newId \in TrackedAtCall(p)

\* C12: for a handled response the dismissal is attempted first, the scheduler
\* operation completes before the handler is called (onStop after
\* cancelSunriseAlarm, onSnooze(10) after scheduleSnooze(10)), and an error
\* thrown by the handler does not propagate out of the listener
C12_CallbackAfterOperationAndContained ==
  /\ ListenerOrder
  /\ \A p \in Procs : Listened(p) /\ hist[p].called # "none" => task[p].outcome = "ok"

\* --------------------------------------------- claims on the weather cache
GetDone(p) == wtask[p].op = "get" /\ wtask[p].pc = "done"

PutDone(p) == wtask[p].op = "put" /\ wtask[p].pc = "done"

\* the record the persistent tier holds, as a read would return it
Persisted == readPersistentCache(cacheItem)

\* C13: getCachedWeather looks at the memory slot first and on a key match
\* returns from it without a persistent read and without touching either tier;
\* on a memory miss it reads the persistent record; if that record's key matches
\* it is returned and becomes the memory slot, so that the next get of the key
\* is served from memory; if neither matches the result is the null bundle with
\* isFresh false and both tiers stay as they were
C13_MemoryThenPersistent ==
  [][\A p \in WProcs :
       /\ (wtask[p].pc = "idle" /\ wtask'[p].op = "get") =>
            IF memoryCache.key = wtask'[p].key
            THEN /\ wtask'[p].pc = "done" /\ ~wtask'[p].read
                 /\ wtask'[p].result.bundle = memoryCache.bundle
                 /\ wtask'[p].result.airQuality = memoryCache.airQuality
                 /\ memoryCache' = memoryCache /\ cacheItem' = cacheItem
            ELSE wtask'[p].pc = "reading"
       /\ (wtask[p].pc = "reading" /\ wtask'[p].pc = "loaded") =>
            /\ wtask'[p].read
            /\ wtask'[p].persisted = Persisted
       /\ (wtask[p].pc = "loaded" /\ wtask'[p].pc = "done") =>
            IF wtask[p].persisted.key = wtask[p].key
            THEN /\ wtask'[p].result.bundle = wtask[p].persisted.bundle
                 /\ wtask'[p].result.airQuality = wtask[p].persisted.airQuality
                 /\ memoryCache' = wtask[p].persisted
                 /\ cacheItem' = cacheItem
            ELSE /\ wtask'[p].result = NoResult
                 /\ memoryCache' = memoryCache /\ cacheItem' = cacheItem]_vars

\* a get missed memory, read the persistent record, returned it and left it
\* in the memory slot
C13_Witness ==
  \E p \in WProcs :
    /\ GetDone(p) /\ wtask[p].read
    /\ wtask[p].hit # NoEntry
    /\ wtask[p].result.bundle = wtask[p].hit.bundle
    /\ memoryCache = wtask[p].hit

\* C14: isFresh is true exactly when the entry served is younger than the time
\* to live, t - t0 < ttl, so false when t - t0 = ttl; the bundle and the air
\* quality of the entry are returned whether it is fresh or stale; the time
\* to live is 300000 ms when the caller passes none
C14_FreshExactlyBelowTtl ==
  \A p \in WProcs : GetDone(p) =>
    LET t == wtask[p]
        ttl == IF t.ttlArg = NULL THEN 300000 ELSE t.ttlArg
    IN  /\ t.result.bundle = t.hit.bundle
        /\ t.result.airQuality = t.hit.airQuality
        /\ t.at = now
        /\ t.result.isFresh <=> (t.hit # NoEntry /\ t.at - t.hit.fetchedAtMs < ttl)

\* an entry exactly 300000 ms old was served as stale, with its bundle, to a
\* caller that passed no time to live
C14_Witness ==
  \E p \in WProcs :
    /\ GetDone(p) /\ wtask[p].ttlArg = NULL
    /\ wtask[p].hit # NoEntry
    /\ wtask[p].at - wtask[p].hit.fetchedAtMs = 300000
    /\ ~wtask[p].result.isFresh
    /\ wtask[p].result.bundle = wtask[p].hit.bundle
    /\ wtask[p].result.bundle # NoBundle

\* a coordinate (in units of 0.0001) rounded to three decimals, as a number of
\* thousandths: -0.0001 and 0.0001 both round to 0
Rounded3(c) == IF c < 0 THEN -((Abs(c) + 5) \div 10) ELSE (c + 5) \div 10

RoundedPair(loc) == <<Rounded3(loc[1]), Rounded3(loc[2])>>

\* the get of p started right after a put that ran with no other call in
\* flight, and no other call started while it ran
FollowsPut(p) == GetDone(p) /\ wtask[p].follows /\ wtask[p].alone

\* C15: the cache key depends only on the coordinates rounded to three
\* decimals: a get right after a put is served the entry of that put exactly
\* when its coordinates round to the same pair as the coordinates of the put
C15_KeyIsRoundedPair ==
  \A p \in WProcs : FollowsPut(p) =>
    ((wtask[p].hit = lastPut.entry /\ wtask[p].result.bundle = lastPut.entry.bundle)
       <=> RoundedPair(wtask[p].loc) = RoundedPair(lastPut.loc))

\* C16: updateWeatherCache replaces both tiers as a unit: when a put that ran
\* alone has returned and its write succeeded, the memory slot and the
\* persistent record hold the same entry, with the key of its coordinates, its
\* bundle and air quality, and fetchedAtMs the time of the put; each tier holds
\* one entry, so a get of another key right after the put is a miss
C16_PutReplacesBothTiers ==
  /\ \A p \in WProcs : PutDone(p) /\ wtask[p].alone =>
       /\ memoryCache = Persisted
       /\ memoryCache.key = makeCacheKey(wtask[p].loc[1], wtask[p].loc[2])
       /\ memoryCache.fetchedAtMs = wtask[p].at
       /\ memoryCache.bundle = wtask[p].entry.bundle
       /\ memoryCache.airQuality = wtask[p].entry.airQuality
       /\ lastPut.entry = memoryCache
  /\ \A p \in WProcs : FollowsPut(p) /\ wtask[p].key # lastPut.entry.key =>
       /\ wtask[p].result = NoResult
       /\ wtask[p].read
       /\ memoryCache = lastPut.entry /\ Persisted = lastPut.entry

\* a put made after its bundle was fetched returned, over a persistent record
\* that held another key before
C16_Witness ==
  \E p \in WProcs :
    /\ PutDone(p) /\ wtask[p].alone
    /\ wtask[p].at # wtask[p].entry.bundle.fetchedAtMs
    /\ memoryCache.fetchedAtMs = wtask[p].at
    /\ Persisted = memoryCache
    /\ memoryCache.key # PriorEntry.key

\* C17: once updateWeatherCache(loc, bundle) has been called, every
\* getCachedWeather(loc) that starts afterwards and before the next put returns
\* that bundle, whatever gets were in flight when the put was made
C17_GetAfterPutSeesIt ==
  \A p \in WProcs :
    GetDone(p) /\ wtask[p].promised # NoBundle =>
      wtask[p].result.bundle = wtask[p].promised

\* C18: no cache call raises; a get whose persistent read rejected, or that
\* read a malformed or absent value, is a miss; a put whose persistent write
\* rejected returns normally, and the get of the same key that follows it
\* returns the entry that was put
C18_StoreFailuresAreMisses ==
  /\ \A p \in WProcs : wtask[p].pc = "done" => wtask[p].outcome = "ok"
  /\ \A p \in WProcs : GetDone(p) /\ wtask[p].failed => wtask[p].result = NoResult
  /\ \A p \in WProcs :
       GetDone(p) /\ wtask[p].read /\ wtask[p].alone
         /\ cacheItem \in PriorItems \ {JSONstringifyEntry(PriorEntry)} =>
           wtask[p].result = NoResult
  /\ \A p \in WProcs : FollowsPut(p) /\ wtask[p].key = lastPut.entry.key =>
       /\ wtask[p].result.bundle = lastPut.entry.bundle
       /\ wtask[p].result.airQuality = lastPut.entry.airQuality

\* a get was served the entry of the put before it although the persistent
\* store does not hold that entry: the write of the put had been rejected
C18_Witness ==
  \E p \in WProcs :
    /\ FollowsPut(p) /\ wtask[p].key = lastPut.entry.key
    /\ Persisted # lastPut.entry
    /\ wtask[p].result.bundle = lastPut.entry.bundle
    /\ wtask[p].outcome = "ok"

\* ------------------------------------------------ claims on the altitude
\* the altitude was computed for a day whose sunset is after its sunrise
AskedValidDay ==
  /\ sun.asked
  /\ sun.todaySunrise # NoDate /\ sun.todaySunset # NoDate
  /\ sun.todaySunset > sun.todaySunrise

ByDay == sun.timeMs >= sun.todaySunrise /\ sun.timeMs <= sun.todaySunset

\* the night segment that applies to the instant asked: its start and its end
NightStart ==
  IF sun.timeMs < sun.todaySunrise THEN sun.todaySunset - 86400000 ELSE sun.todaySunset

NightEnd ==
  IF sun.timeMs < sun.todaySunrise THEN sun.todaySunrise
  ELSE IF sun.sunriseTime # NoDate THEN sun.sunriseTime
  ELSE sun.todaySunrise + 86400000

\* C19: the altitude is null for every instant when a time of today is missing
\* or today's sunset is not after today's sunrise, and null when the night span
\* that applies to the instant is not positive: after sunset the span from
\* today's sunset to tomorrow's sunrise (today's sunrise + 24 h when unknown),
\* before sunrise the span from today's sunset - 24 h to today's sunrise; in
\* every other case it is a number
C19_NullExactlyWhenNoSpan ==
  sun.asked =>
    (sun.altitude.null <=>
       \/ sun.todaySunrise = NoDate \/ sun.todaySunset = NoDate
       \/ sun.todaySunset <= sun.todaySunrise
       \/ /\ sun.timeMs > sun.todaySunset
          /\ NightEnd - sun.todaySunset <= 0
       \/ /\ sun.timeMs < sun.todaySunrise
          /\ sun.todaySunrise - (sun.todaySunset - 86400000) <= 0)

\* after sunset of a valid day, with tomorrow's sunrise known and not after
\* today's sunset, the altitude is null
C19_Witness ==
  /\ AskedValidDay
  /\ sun.timeMs > sun.todaySunset
  /\ sun.sunriseTime # NoDate /\ sun.sunriseTime <= sun.todaySunset
  /\ sun.altitude.null

Zero(a) == ~a.null /\ a.milli = 0 /\ a.sign = 0

\* the values the claim gives: a number; by day never below 0, 1 at the
\* midpoint; inside the night segment never above 0, -1 at the midpoint
AltitudeShape ==
  /\ AskedValidDay /\ ByDay =>
       /\ ~sun.altitude.null
       /\ sun.altitude.sign >= 0 /\ sun.altitude.milli >= 0
       /\ 2 * (sun.timeMs - sun.todaySunrise) = sun.todaySunset - sun.todaySunrise
            => sun.altitude.milli = 1000
  /\ AskedValidDay /\ ~ByDay /\ NightEnd > NightStart
       /\ sun.timeMs >= NightStart /\ sun.timeMs <= NightEnd =>
       /\ ~sun.altitude.null
       /\ sun.altitude.sign <= 0 /\ sun.altitude.milli <= 0
       /\ 2 * (sun.timeMs - NightStart) = NightEnd - NightStart
            => sun.altitude.milli = -1000

\* C20 as stated: the altitude is 0 at sunrise and at sunset and 1 at the
\* midpoint of the day, 0 at the ends of the night segment and -1 at its
\* midpoint, never below 0 by day nor above 0 inside the night segment
C20_ZeroAtBothEnds ==
  /\ AltitudeShape
  /\ AskedValidDay /\ (sun.timeMs = sun.todaySunrise \/ sun.timeMs = sun.todaySunset)
       => Zero(sun.altitude)
  /\ AskedValidDay /\ ~ByDay /\ NightEnd > NightStart
       /\ (sun.timeMs = NightStart \/ sun.timeMs = NightEnd)
       => Zero(sun.altitude)

\* C20, amended: the altitude is 0 at sunrise and at the start of the night
\* segment; at sunset and at the end of the night segment, where the progress
\* is 1, it is Math.sin(Math.PI) or its negative: within a thousandth of 0 but
\* not 0, above 0 at sunset and below 0 at the night's end; it is 1 at the
\* midpoint of the day and -1 at the midpoint of the night, never below 0 by
\* day nor above 0 inside the night segment
C20_ZeroAtStartTinyAtEnd ==
  /\ AltitudeShape
  /\ AskedValidDay /\ sun.timeMs = sun.todaySunrise => Zero(sun.altitude)
  /\ AskedValidDay /\ sun.timeMs = sun.todaySunset =>
       sun.altitude.milli = 0 /\ sun.altitude.sign = 1
  /\ AskedValidDay /\ ~ByDay /\ NightEnd > NightStart /\ sun.timeMs = NightStart
       => Zero(sun.altitude)
  /\ AskedValidDay /\ ~ByDay /\ NightEnd > NightStart /\ sun.timeMs = NightEnd
       => sun.altitude.milli = 0 /\ sun.altitude.sign = -1

\* the altitude at the end of a night segment, tiny and below 0
C20_Witness ==
  /\ AskedValidDay /\ ~ByDay
  /\ NightEnd > NightStart /\ sun.timeMs = NightEnd
  /\ sun.altitude.milli = 0 /\ sun.altitude.sign = -1

\* ------------------------------------- claims on the order inside a call
Scheduling(p) == task[p].op = "schedule"

\* the call of slot p moves to the position pc in this step
Enters(p, pc) == task'[p].pc = pc /\ task[p].pc # pc

\* the steps of scheduleSunriseAlarm come in the order of its awaits: it starts
\* inside clearStoredIds; the removal of the legacy key follows the removal of
\* the tracked-set key; the per-id chains and initAlarmNotifications follow
\* both removals; the platform call that creates the notification follows
\* initAlarmNotifications
ScheduleStepOrder(p) ==
  /\ task[p].pc = "idle" /\ task'[p].op = "schedule" => task'[p].pc = "clr_getIds"
  /\ Scheduling(p) /\ Enters(p, "clr_rmLegacy") =>
       task[p].pc = "clr_rmIds" /\ idsKey' = AbsentRaw
  /\ Scheduling(p) /\ Enters(p, "cancel_each") =>
       task[p].pc = "clr_rmLegacy" /\ legacyKey' = NULL
  /\ Scheduling(p) /\ Enters(p, "init") =>
       \/ task[p].pc = "clr_rmLegacy" /\ legacyKey' = NULL
       \/ task[p].pc = "cancel_each"
  /\ Scheduling(p) /\ Enters(p, "create") => task[p].pc = "init"
  /\ Scheduling(p) /\ Enters(p, "add_get") =>
       /\ task[p].pc = "create"
       /\ task'[p].newId = nextId /\ nextId' > nextId
       /\ [id |-> nextId, trigger |-> DateTrigger(task[p].arg)] \in scheduled'

\* a write of the tracked set by a scheduleSunriseAlarm holds the id the
\* platform has returned to it
WritesReturnedId(p) ==
  Scheduling(p) /\ task[p].pc = "add_set" /\ task'[p].pc # "add_set" =>
    /\ task[p].newId # NULL /\ task[p].newId < nextId
    /\ idsKey'.kind = "array" /\ task[p].newId \in SeqToSet(idsKey'.ids)

\* a scheduleSunriseAlarm that has not been given an id yet has written none;
\* while it runs alone and is about to create, both keys are absent
BeforeCreate(p) ==
  Scheduling(p) /\ task'[p].pc \in {"clr_getIds", "clr_getLegacy", "clr_rmIds", "clr_rmLegacy",
                                    "cancel_each", "init", "create"} =>
    /\ task'[p].newId = NULL
    /\ task'[p].pc \in {"init", "create"} /\ hist'[p].alone =>
         idsKey' = AbsentRaw /\ legacyKey' = NULL

\* C23: inside scheduleSunriseAlarm the platform call that creates the new
\* notification starts only after the cancel step has removed the tracked-set
\* key and the legacy key, and the new id is written to the store only after
\* the platform has returned it
C23_CancelThenCreateOrdered ==
  [][\A p \in Procs : ScheduleStepOrder(p) /\ WritesReturnedId(p) /\ BeforeCreate(p)]_vars

\* a schedule is about to call the platform: it found a tracked id and the
\* legacy id, has asked for the cancel of both, and both keys are gone
C23_Witness ==
  \E p \in Procs :
    /\ Scheduling(p) /\ task[p].pc = "create" /\ Alone(p)
    /\ PreTracked(p) # {} /\ PreLegacy(p) # {}
    /\ PreTracked(p) \cup PreLegacy(p) \subseteq hist[p].cancelReq
    /\ idsKey = AbsentRaw /\ legacyKey = NULL

\* C24: once overlapping scheduleSunriseAlarm, scheduleSnooze and
\* cancelSunriseAlarm calls have all returned, started from a state where
\* every pending notification was tracked and with every platform cancel
\* having taken effect, every notification still pending on the platform has
\* its id in the persisted tracked set
C24_NoPendingUntracked ==
  (/\ \A p \in Procs : task[p].pc = "done" /\ task[p].outcome = "ok"
   /\ \A p \in Procs : CancelsTookEffect(p)
   /\ \E p \in Procs : hist[p].preAllTracked)
    => AllPendingTracked

\* C29: for a response on an alarm notification whose action is neither
\* STOP_ALARM nor SNOOZE_10 the listener only asks for the dismissal of the
\* notification acted on and returns: none of its steps changes the tracked
\* set, the legacy key or the pending notifications, it requests no cancel,
\* schedules nothing and calls neither onStop nor onSnooze
C29_OtherActionOnlyDismisses ==
  [][\A p \in Procs :
       LET t == task'[p]
           r == task'[p].response
       IN  t.op = "listener" /\ IsAlarmResponse(r)
             /\ r.action \notin {ALARM_ACTION_STOP, ALARM_ACTION_SNOOZE_10} =>
               /\ t.pc \in {"lst_dismiss", "done"}
               /\ t.pc = "done" => t.outcome = "ok" /\ hist'[p].actedOn = r.id
               /\ hist'[p].cancelReq = {} /\ hist'[p].dismissReq = {}
               /\ t.newId = NULL /\ t.toCancel = {} /\ t.toDismiss = {}
               /\ hist'[p].called = "none"
               /\ task'[p] # task[p] =>
                    /\ UNCHANGED <<idsKey, legacyKey, scheduled, nextId>>
                    /\ delivered' \subseteq delivered
                    /\ delivered \ delivered' \subseteq {r.id}]_vars

\* the listener returned from a tap on the body of an alarm notification while
\* another alarm was tracked and pending; the notification tapped is dismissed
C29_Witness ==
  \E p \in Procs :
    /\ Listened(p) /\ IsAlarmResponse(task[p].response)
    /\ task[p].response.action = OtherAction
    /\ task[p].outcome = "ok"
    /\ hist[p].actedOn = task[p].response.id
    /\ task[p].response.id \notin delivered
    /\ Reachable # {} /\ scheduled # {}

\* --------------------------------------- claims on the tracked-set record
NoDuplicates(ids) == Cardinality(SeqToSet(ids)) = Len(ids)

NonEmptyStrings(ids) == \A i \in 1..Len(ids) : ids[i] # EmptyId /\ ids[i] # NULL

\* the call of slot p passes its array to setStoredIds in this step
WritesTrackedSet(p) == task[p].pc = "add_set" /\ task'[p].pc # "add_set"

\* C27: every value setStoredIds writes under the tracked-set key is an array
\* of non-empty strings without duplicates, also when the id the platform
\* returned is the empty string or an id that is tracked already, and the
\* write holds every other id that was passed to it; no other step puts an
\* array under the key
C27_WrittenSetIsClean ==
  [][/\ \A p \in Procs : WritesTrackedSet(p) =>
          /\ idsKey'.kind = "array"
          /\ NoDuplicates(idsKey'.ids) /\ NonEmptyStrings(idsKey'.ids)
          /\ SeqToSet(idsKey'.ids) = SeqToSet(task[p].ids) \ {EmptyId}
     /\ idsKey' # idsKey /\ idsKey'.kind = "array" => \E p \in Procs : WritesTrackedSet(p)]_vars

\* a snooze was given an id that was tracked already: the array it passed to
\* setStoredIds held the id twice and the record written holds it once
C27_Witness ==
  \E p \in Procs :
    /\ Returned(p, "snooze") /\ Alone(p)
    /\ task[p].newId \in PreTracked(p)
    /\ ~NoDuplicates(task[p].ids)
    /\ idsKey.kind = "array" /\ NoDuplicates(idsKey.ids)
    /\ task[p].newId \in SeqToSet(idsKey.ids)

\* the record the call of slot p found is absent or damaged
FoundNoList(p) == hist[p].preIds.kind \in MalformedKinds \cup {"null"}

\* the call of slot p holds what getStoredIds returned inside clearStoredIds
HoldsStoredIds(p) == task[p].pc \in {"clr_getLegacy", "clr_rmIds", "clr_rmLegacy"}

\* C28: a tracked-set record that is absent, is no JSON, is no array or is an
\* array with an element that is no string is read as the empty list, all or
\* nothing, and the read does not raise: a cancelSunriseAlarm over it returns
\* normally and requests the cancel of no id but the legacy id, and a
\* scheduleSnooze over it writes a record holding only the new id
C28_MalformedReadsAsEmpty ==
  \A p \in Procs : Alone(p) /\ FoundNoList(p) =>
    /\ HoldsStoredIds(p) => task[p].ids = <<>>
    /\ hist[p].cancelReq \subseteq PreLegacy(p)
    /\ hist[p].dismissReq \subseteq PreLegacy(p)
    /\ Done(p, "cancel") => task[p].outcome = "ok" /\ idsKey = AbsentRaw
    /\ task[p].pc = "done" /\ task[p].outcome = "threw" => task[p].newId = NULL
    /\ Returned(p, "snooze") => idsKey = setStoredIds(<<task[p].newId>>)

\* a cancel returned over an array that held a string and something else,
\* with a legacy id: only the legacy id was cancelled, the notification named
\* in the damaged record is still pending
C28_Witness ==
  \E p \in Procs :
    /\ Returned(p, "cancel") /\ Alone(p)
    /\ hist[p].preIds.kind = "mixed_array" /\ hist[p].preIds.ids # <<>>
    /\ hist[p].cancelReq = {LegacyId}
    /\ \E n \in scheduled : n.id \in SeqToSet(hist[p].preIds.ids)

\* --------------------------------------------- claims on the weather screen
\* the run e of the effect has been cleaned up
CleanedUp(e) == effect[e].state # "unused" /\ ~effect[e].active

\* the weather state of the screen: temperature (with unit, code and day
\* flag), forecast, details, error and loading
WeatherState == shown

\* C30: once a run of the weather effect has been cleaned up (screen or
\* coordinates changed, or the component unmounted), no callback of its
\* fetches changes temperature, forecast, details, error or loading, in
\* whatever order the old and the new requests settle; only a run that is
\* active writes the values of its fetches
C30_SupersededRunWritesNothing ==
  [][/\ \A e \in Effects : CleanedUp(e) /\ effect'[e] # effect[e] => WeatherState' = WeatherState
     /\ \A e \in Effects : effect'[e].applied /\ ~effect[e].applied => effect[e].active]_vars

\* the fetches of a superseded run settled after the run that replaced it had
\* shown its values: the values of the later run are still shown
C30_Witness ==
  \E e, d \in Effects :
    /\ e < d
    /\ CleanedUp(e) /\ effect[e].state = "finished" /\ ~effect[e].applied
    /\ effect[d].active /\ effect[d].state = "finished" /\ effect[d].applied
    /\ shown.temperature = ValueOf(d, "current")
    /\ shown.weatherLoading = FALSE

\* ------------------------------------------ claims on the alarm handlers
HandlerDone(p, h) == app[p].pc = "done" /\ app[p].handler = h

\* the hydrate of slot p was started by a restart over settings with the alarm
\* enabled and a tracked id, ran with no other handler in flight and returned
\* without an error
Rehydrated(p) ==
  /\ HandlerDone(p, "hydrate") /\ app[p].outcome = "ok" /\ app[p].alone
  /\ app[p].preSettings.saved /\ app[p].preSettings.alarmEnabled
  /\ app[p].preTracked # {}

\* C21: after a restart with alarmEnabled persisted as true and an id tracked,
\* hydrate calls scheduleSunriseAlarm with the sunrise it has just fetched;
\* when it has completed the tracked set holds exactly one id, a fresh one,
\* whose notification is bound to that sunrise, and the notifications tracked
\* before are no longer pending (where the platform honoured the cancel);
\* the same after a second restart in a row
C21_RestartReplacesAlarm ==
  \A p \in Procs :
    Rehydrated(p) =>
      /\ app[p].sunrise = sun.sunriseTime /\ app[p].sunrise # NoDate
      /\ Tracked = <<app[p].newId>>
      /\ app[p].newId \notin app[p].preTracked
      /\ [id |-> app[p].newId, trigger |-> DateTrigger(app[p].sunrise)] \in scheduled
      /\ app[p].cancelsOk => app[p].preTracked \cap ScheduledIds = {}
      /\ alarmEnabled

\* the second restart in a row has re-scheduled: the alarm of the first
\* restart is cancelled and the one of the second is the only one pending
C21_Witness ==
  \E p \in Procs :
    /\ Rehydrated(p) /\ app[p].seq = 2 /\ app[p].cancelsOk
    /\ app[p].preTracked = {2}
    /\ Tracked = <<3>>
    /\ ScheduledIds = {3}

\* the step in which the onToggle of slot p enters its catch block
ToggleFails(p) ==
  /\ app[p].handler = "toggle" /\ app[p].outcome # "failed"
  /\ app'[p].outcome = "failed"

\* C22: when ensureNotificationPermissions or scheduleSunriseAlarm throws
\* while toggling, the error reaches onToggle's catch: in that step
\* alarmEnabled goes back to the value it had when the toggle was pressed and
\* the settings record is not written (it is the one from before the toggle
\* when no other handler ran meanwhile); the failed handler returns
C22_FailedToggleRestores ==
  [][\A p \in Procs :
       /\ ToggleFails(p) =>
            /\ app'[p].failedAt \in {"permission", "schedule"}
            /\ app'[p].pc = "done"
            /\ alarmEnabled' = app[p].preEnabled
            /\ settings' = settings
            /\ app[p].alone => settings' = app[p].preSettings
       /\ app[p].handler = "toggle" /\ task[p].pc = "done" /\ task[p].outcome = "threw"
          /\ app'[p].pc # app[p].pc => ToggleFails(p)
       /\ app[p].handler = "toggle" /\ app[p].pc = "perm_req" /\ permission' = "denied"
          /\ app'[p].pc # app[p].pc => ToggleFails(p)]_vars

\* a toggle to ON failed inside scheduleSunriseAlarm: the toggle is off again
\* and the settings still say off
C22_Witness ==
  \E p \in Procs :
    /\ HandlerDone(p, "toggle") /\ app[p].outcome = "failed" /\ app[p].failedAt = "schedule"
    /\ app[p].nextEnabled /\ app[p].alone
    /\ ~alarmEnabled
    /\ settings = SavedSettings(FALSE, 1)

\* the handler of slot p is a toggle to OFF that was pressed last, while the
\* handler of slot q (a toggle to ON, or an applyLocation that re-schedules)
\* was suspended at an await; both have completed without an error and the
\* platform honoured every cancel they asked for
OffPressedLast(p, q) ==
  /\ HandlerDone(p, "toggle") /\ ~app[p].nextEnabled /\ app[p].outcome = "ok"
  /\ app[q].pc = "done" /\ app[q].outcome = "ok" /\ app[q].nextEnabled
  /\ app[q].handler \in {"toggle", "apply"}
  /\ app[q].seq < app[p].seq
  /\ app[p].cancelsOk /\ app[q].cancelsOk

\* C25: when the toggle to OFF is the user's last action and an earlier
\* onToggle(ON) or applyLocation was still in flight, then once both have
\* completed nothing is pending on the platform, the tracked set is empty and
\* the settings record says alarmEnabled = false, as the toggle shown does
C25_OffWinsOverInFlight ==
  \A p, q \in Procs :
    OffPressedLast(p, q) =>
      /\ ScheduledIds = {}
      /\ Tracked = <<>>
      /\ ~settings.alarmEnabled
      /\ settings.alarmEnabled = alarmEnabled

\* no handler is in flight and the handler of slot p, which ran with no other
\* handler in flight, has just completed
IdleAfter(p) ==
  /\ \A q \in Procs : ~Handling(q)
  /\ app[p].pc = "done" /\ app[p].alone
  /\ app[p].handler \in {"hydrate", "toggle", "apply"}

\* C26: whenever the app is idle after hydrate, onToggle or applyLocation has
\* completed, with or without an error, a toggle shown as enabled goes with
\* exactly one tracked id
C26_EnabledMeansOneTracked ==
  \A p \in Procs :
    IdleAfter(p) /\ alarmEnabled => Len(Tracked) = 1

====
